---- MODULE Spec2Model ----
(***************************************************************************)
(* State-machine model of the FdTable (src/fd_table.rs), of the emulated   *)
(* file system EmuFs / EmuFile (src/emu_fs.rs), of utility functions       *)
(* (src/util.rs) and of read_task_trace_event (src/replay_syscall.rs) of   *)
(* rd.                                                                     *)
(*                                                                         *)
(* The specifications of the module:                                       *)
(*   SpecFd       - the mutations of FdTables (two monitor objects, a      *)
(*                  table cloned into a task of another address space),    *)
(*                  in a recording or a replay session;                    *)
(*   SpecFdBitmap - a recording session with preload globals: a table      *)
(*                  shared by tasks of two address spaces, a second table  *)
(*                  in one of them, and the disabled-fds bitmap, which     *)
(*                  init_syscallbuf_fds_disabled rewrites;                 *)
(*   SpecFdOps    - a recording session with one table shared by two     *)
(*                  tasks; every call keeps its name and arguments, and    *)
(*                  fds_to_close_after_exec scans /proc;                   *)
(*   SpecFdClone  - a recording session in which a table is cloned into a  *)
(*                  new task; every call keeps its name and its table;     *)
(*   SpecEmu      - the EmuFs, the EmuFiles it created and the strong      *)
(*                  handles its callers hold.  There is one EmuFs (a       *)
(*                  single instance serves every session), so the owner    *)
(*                  of every EmuFile is the EmuFs it is registered in;     *)
(*   SpecFdReplay - the calls of SpecFdClone and the exec scan in a        *)
(*                  replay session;                                        *)
(*   SpecFdExec   - a recording table and its replay table with the same   *)
(*                  fds: an exec is recorded and then replayed;            *)
(*   SpecEmuData  - the same EmuFs with the bytes of the backing objects:  *)
(*                  callers grow files with ensure_size and the tracee     *)
(*                  writes through its mappings;                           *)
(*   SpecEmuUpdate - the files of SpecEmuData with EmuFile::update called  *)
(*                  directly, in a debug or a release build;               *)
(*   SpecEmuRead  - the files of SpecEmuData with backing objects that     *)
(*                  can end before size_ bytes;                            *)
(*   SpecEmuOwner - the holders of the EmuFs drop their handles to the     *)
(*                  EmuFiles and to the EmuFs in any order;                *)
(*   SpecUtil     - one call of tmp_dir, is_tmp_file,                      *)
(*                  pwrite_all_fallible or read_task_trace_event, in       *)
(*                  every environment, file system, write schedule and     *)
(*                  trace of the model.                                    *)
(* Each specification leaves the variables of the other parts untouched.   *)
(***************************************************************************)
EXTENDS Integers, Sequences, FiniteSets, TLC

VARIABLES
    \* ---- FdTable side ------------------------------------------------
    fds,                      \* FdTable::fds of every table: fd -> monitor
    fd_count_beyond_limit,    \* FdTable::fd_count_beyond_limit of every table
    tasks,                    \* FdTable::tasks of every table (its TaskSet)
    fd_table,                 \* Task::fd_table() of every task
    is_recording,             \* Session::is_recording()
    preload_globals,          \* RecordTask::preload_globals.is_some(), per task
    syscallbuf_fds_disabled,  \* the bitmap in tracee memory, per address space
    recorded,                 \* the bitmap bytes as last recorded to the trace
    last_op,                  \* the FdTable call made last (SpecFdOps, SpecFdClone)
    \* ---- EmuFs side --------------------------------------------------
    files,                    \* EmuFs::files: FileId -> weak handle (object id)
    emu_files,                \* every EmuFile object ever created, by object id
    shmem,                    \* contents of every memfd object ever created, by fd
    ret,                      \* the last EmuFs operation, its argument and result
    fatal,                    \* the process aborted (fatal! / panic)
    emu_fs_strong,            \* strong handles to the EmuFs (EmuFsSharedPtr)
    \* ---- utility functions (src/util.rs, src/replay_syscall.rs) ---------
    input,                    \* the arguments and the environment of a call
    output                    \* what the call returned and did

fd_vars == <<fds, fd_count_beyond_limit, tasks, fd_table, is_recording,
             preload_globals, syscallbuf_fds_disabled, recorded, last_op>>
emu_vars == <<files, emu_files, shmem, ret, fatal>>
util_vars == <<input, output>>
owner_vars == <<emu_fs_strong>>
vars == <<fds, fd_count_beyond_limit, tasks, fd_table, is_recording,
          preload_globals, syscallbuf_fds_disabled, recorded, last_op,
          files, emu_files, shmem, ret, fatal, emu_fs_strong, input, output>>

(***************************************************************************)
(* Bounds and program constants                                            *)
(***************************************************************************)

\* Length of the disabled-fds bitmap.  The preload interface fixes it at
\* compile time; the model uses a small value with the same structure: at
\* least one directly indexed byte below the final, collapsed byte.
SYSCALLBUF_FDS_DISABLED_SIZE == 2

\* Number of file descriptors >= SYSCALLBUF_FDS_DISABLED_SIZE the model uses.
FdsBeyondLimit == 2

NoMonitor == "none"
NoTable == "none"      \* a task that is not created yet
Gone == "gone"         \* a task that does not take part
None == 0

FDs == 0 .. (SYSCALLBUF_FDS_DISABLED_SIZE + FdsBeyondLimit - 1)
Monitors == {"m1", "m2"}
TableIds == {"T1", "T2"}
TaskIds == {"t1", "t2", "t3"}
AddressSpaces == {"A", "B"}

\* Task::vm(): t1 and t3 share address space A, t2 lives in B.
vm(t) == IF t = "t2" THEN "B" ELSE "A"

\* fd_count_beyond_limit is a u32.  The model holds its 32-bit pattern read
\* as a two's-complement integer, so that wrapping `+= 1` and `-= 1` are plain
\* integer steps: a counter decremented below 0 (u32::MAX) shows as -1.
u32(n) == n

(***************************************************************************)
(* FdTable: pure parts                                                     *)
(***************************************************************************)

\* HashMap::contains_key on one table's fds
contains_key(f, fd) == f[fd] # NoMonitor

is_monitoring(f, fd) == contains_key(f, fd)

get_monitor(f, fd) == f[fd]

\* The keys of one table's fds
keys(f) == {fd \in FDs : contains_key(f, fd)}

\* The iteration orders of a hash set / hash map: every permutation.
RECURSIVE Orders(_)
Orders(S) ==
    IF S = {} THEN {<<>>}
    ELSE UNION {{<<x>> \o s : s \in Orders(S \ {x})} : x \in S}

\* The whole mutable FdTable-side state as one value, threaded through the
\* operators below, with the session kind the tasks report.  writes and
\* records are the calls of write_bytes and of record_local one operation
\* makes, in order: each <<address space, offset in the bitmap, bytes>>.
World ==
    [fds |-> fds, cnt |-> fd_count_beyond_limit,
     mem |-> syscallbuf_fds_disabled, rec |-> recorded,
     is_recording |-> is_recording, writes |-> <<>>, records |-> <<>>]

SetWorld(W) ==
    /\ fds' = W.fds
    /\ fd_count_beyond_limit' = W.cnt
    /\ syscallbuf_fds_disabled' = W.mem
    /\ recorded' = W.rec

\* AddressSpace::task_set_iter(): the live tasks of an address space
vm_tasks(v) == {t \in TaskIds : vm(t) = v /\ fd_table[t] \in TableIds}

is_fd_monitored_in_any_task(W, v, fd) ==
    \E t \in vm_tasks(v) :
        LET table == fd_table[t] IN
            \/ is_monitoring(W.fds[table], fd)
            \/ (fd >= SYSCALLBUF_FDS_DISABLED_SIZE - 1 /\ W.cnt[table] # 0)

\* rt.write_bytes(addr, ..) followed by rt.record_local(addr, ..) of one byte
write_and_record_byte(W, v, idx, byte) ==
    [W EXCEPT !.mem[v][idx] = byte, !.rec[v][idx] = byte,
              !.writes = Append(@, <<v, idx, byte>>),
              !.records = Append(@, <<v, idx, byte>>)]

\* a write of the whole bitmap that is not recorded
write_only(W, v, disabled) ==
    [W EXCEPT !.mem[v] = disabled, !.writes = Append(@, <<v, 0, disabled>>)]

\* rt.write_bytes(addr, &disabled) followed by rt.record_local(addr,
\* &disabled) of the whole bitmap
write_and_record(W, v, disabled) ==
    [W EXCEPT !.mem[v] = disabled, !.rec[v] = disabled,
              !.writes = Append(@, <<v, 0, disabled>>),
              !.records = Append(@, <<v, 0, disabled>>)]

\* The guard of update_syscallbuf_fds_disabled that decides to skip a task
\* (`continue`): as written it skips when the address space is NOT yet in
\* vms_updated.
skip_vm(vms_updated, vm_addr) == vm_addr \notin vms_updated

\* The loop of update_syscallbuf_fds_disabled over the tasks of the table, in
\* iteration order ord, from position i on.  fd is the (mutable) parameter.
RECURSIVE update_loop(_, _, _, _, _)
update_loop(W, ord, i, fd, vms_updated) ==
    IF i > Len(ord) THEN W
    ELSE IF ~W.is_recording THEN W
    ELSE LET t == ord[i]
             vm_addr == vm(t)
         IN IF skip_vm(vms_updated, vm_addr)
            THEN update_loop(W, ord, i + 1, fd, vms_updated)
            ELSE IF preload_globals[t]
                 THEN LET fd2 == IF fd >= SYSCALLBUF_FDS_DISABLED_SIZE
                                 THEN SYSCALLBUF_FDS_DISABLED_SIZE - 1
                                 ELSE fd
                          disable == IF is_fd_monitored_in_any_task(W, vm_addr, fd2)
                                     THEN 1 ELSE 0
                      IN update_loop(write_and_record_byte(W, vm_addr, fd2, disable),
                                     ord, i + 1, fd2, vms_updated \cup {vm_addr})
                 ELSE update_loop(W, ord, i + 1, fd, vms_updated \cup {vm_addr})

update_syscallbuf_fds_disabled(W, ord, fd) == update_loop(W, ord, 1, fd, {})

\* add_monitor that inserts under the fd clamped to the bitmap
add_monitor_world_clamped(W, tb, ord, fd, monitor) ==
    LET c == IF fd >= SYSCALLBUF_FDS_DISABLED_SIZE /\ ~contains_key(W.fds[tb], fd)
             THEN u32(W.cnt[tb] + 1) ELSE W.cnt[tb]
        fd2 == IF fd >= SYSCALLBUF_FDS_DISABLED_SIZE
               THEN SYSCALLBUF_FDS_DISABLED_SIZE - 1 ELSE fd
        W1 == [W EXCEPT !.cnt[tb] = c, !.fds[tb][fd2] = monitor]
    IN update_syscallbuf_fds_disabled(W1, ord, fd)

\* add_monitor on world W, table tb (the ed_assert is the action's guard)
add_monitor_world(W, tb, ord, fd, monitor) ==
    LET c == IF fd >= SYSCALLBUF_FDS_DISABLED_SIZE /\ ~contains_key(W.fds[tb], fd)
             THEN u32(W.cnt[tb] + 1) ELSE W.cnt[tb]
        W1 == [W EXCEPT !.cnt[tb] = c, !.fds[tb][fd] = monitor]
    IN update_syscallbuf_fds_disabled(W1, ord, fd)

\* did_dup that binds `to` to another monitor object than the one of `from`
did_dup_world_copy(W, tb, ord, from, to) ==
    LET W1 == IF contains_key(W.fds[tb], from)
              THEN LET c == IF to >= SYSCALLBUF_FDS_DISABLED_SIZE
                                 /\ ~contains_key(W.fds[tb], to)
                            THEN u32(W.cnt[tb] + 1) ELSE W.cnt[tb]
                       copy == CHOOSE m \in Monitors : m # W.fds[tb][from]
                   IN [W EXCEPT !.cnt[tb] = c, !.fds[tb][to] = copy]
              ELSE LET c == IF to >= SYSCALLBUF_FDS_DISABLED_SIZE
                                 /\ contains_key(W.fds[tb], to)
                            THEN u32(W.cnt[tb] - 1) ELSE W.cnt[tb]
                   IN [W EXCEPT !.cnt[tb] = c, !.fds[tb][to] = NoMonitor]
    IN update_syscallbuf_fds_disabled(W1, ord, to)

\* did_dup that does nothing when `from` is not monitored
did_dup_world_keep(W, tb, ord, from, to) ==
    LET W1 == IF contains_key(W.fds[tb], from)
              THEN LET c == IF to >= SYSCALLBUF_FDS_DISABLED_SIZE
                                 /\ ~contains_key(W.fds[tb], to)
                            THEN u32(W.cnt[tb] + 1) ELSE W.cnt[tb]
                   IN [W EXCEPT !.cnt[tb] = c, !.fds[tb][to] = W.fds[tb][from]]
              ELSE W
    IN update_syscallbuf_fds_disabled(W1, ord, to)

did_dup_world(W, tb, ord, from, to) ==
    LET W1 == IF contains_key(W.fds[tb], from)
              THEN LET c == IF to >= SYSCALLBUF_FDS_DISABLED_SIZE
                                 /\ ~contains_key(W.fds[tb], to)
                            THEN u32(W.cnt[tb] + 1) ELSE W.cnt[tb]
                   IN [W EXCEPT !.cnt[tb] = c, !.fds[tb][to] = W.fds[tb][from]]
              ELSE LET c == IF to >= SYSCALLBUF_FDS_DISABLED_SIZE
                                 /\ contains_key(W.fds[tb], to)
                            THEN u32(W.cnt[tb] - 1) ELSE W.cnt[tb]
                   IN [W EXCEPT !.cnt[tb] = c, !.fds[tb][to] = NoMonitor]
    IN update_syscallbuf_fds_disabled(W1, ord, to)

\* did_close without the contains_key test before the decrement
did_close_world_unguarded(W, tb, ord, fd) ==
    LET c == IF fd >= SYSCALLBUF_FDS_DISABLED_SIZE
             THEN u32(W.cnt[tb] - 1) ELSE W.cnt[tb]
        W1 == [W EXCEPT !.cnt[tb] = c, !.fds[tb][fd] = NoMonitor]
    IN update_syscallbuf_fds_disabled(W1, ord, fd)

\* did_close that removes every fd bound to the monitor of fd
did_close_world_monitor(W, tb, ord, fd) ==
    LET c == IF fd >= SYSCALLBUF_FDS_DISABLED_SIZE /\ contains_key(W.fds[tb], fd)
             THEN u32(W.cnt[tb] - 1) ELSE W.cnt[tb]
        W1 == [W EXCEPT !.cnt[tb] = c,
                        !.fds[tb] = [x \in FDs |->
                                       IF W.fds[tb][x] = W.fds[tb][fd]
                                       THEN NoMonitor ELSE W.fds[tb][x]]]
    IN update_syscallbuf_fds_disabled(W1, ord, fd)

did_close_world(W, tb, ord, fd) ==
    LET c == IF fd >= SYSCALLBUF_FDS_DISABLED_SIZE /\ contains_key(W.fds[tb], fd)
             THEN u32(W.cnt[tb] - 1) ELSE W.cnt[tb]
        W1 == [W EXCEPT !.cnt[tb] = c, !.fds[tb][fd] = NoMonitor]
    IN update_syscallbuf_fds_disabled(W1, ord, fd)

\* `for &fd in list { self.did_close(fd) }`
RECURSIVE close_each(_, _, _, _, _)
close_each(W, tb, ord, list, i) ==
    IF i > Len(list) THEN W
    ELSE close_each(did_close_world(W, tb, ord, list[i]), tb, ord, list, i + 1)

\* is_fd_open(t, fd): /proc/<tid>/fd/<fd> exists; open_fds is the set of fds
\* open in the kernel's fd table of t.
is_fd_open(open_fds, fd) == fd \in open_fds

\* a scan that collects the fds that are still open
fds_still_open(key_order, open_fds) ==
    SelectSeq(key_order, LAMBDA fd : is_fd_open(open_fds, fd))

\* The vector fds_to_close that fds_to_close_after_exec builds: the keys of
\* fds, in the map's iteration order key_order, that are not open any more.
fds_no_longer_open(key_order, open_fds) ==
    SelectSeq(key_order, LAMBDA fd : ~is_fd_open(open_fds, fd))

\* fds_to_close_after_exec on world W: the world after it and the vector it
\* returns, for the iteration order key_order of fds and the fds open_fds
\* that /proc/<tid>/fd lists.
fds_to_close_after_exec_world(W, tb, ord, key_order, open_fds) ==
    LET fds_to_close == fds_no_longer_open(key_order, open_fds) IN
        [W |-> close_each(W, tb, ord, fds_to_close, 1), list |-> fds_to_close]

\* a close_after_exec that closes the first fd of the list only
close_after_exec_world_first(W, tb, ord, fds_to_close) ==
    close_each(W, tb, ord, SelectSeq(fds_to_close, LAMBDA fd : fd = fds_to_close[1]), 1)

\* close_after_exec(t, fds_to_close) on world W
close_after_exec_world(W, tb, ord, fds_to_close) ==
    close_each(W, tb, ord, fds_to_close, 1)

\* a bitmap computed without folding the fds beyond the limit into the
\* final byte
disabled_array_unadjusted(v) ==
    [i \in 0 .. (SYSCALLBUF_FDS_DISABLED_SIZE - 1) |->
        IF \E t \in vm_tasks(v) : i \in keys(fds[fd_table[t]]) THEN 1 ELSE 0]

\* The bitmap init_syscallbuf_fds_disabled computes for address space v
disabled_array(v) ==
    [i \in 0 .. (SYSCALLBUF_FDS_DISABLED_SIZE - 1) |->
        IF \E t \in vm_tasks(v) : \E fd \in keys(fds[fd_table[t]]) :
              (IF fd >= SYSCALLBUF_FDS_DISABLED_SIZE
               THEN SYSCALLBUF_FDS_DISABLED_SIZE - 1 ELSE fd) = i
        THEN 1 ELSE 0]

(***************************************************************************)
(* FdTable: actions                                                        *)
(***************************************************************************)

LiveTables == {tb \in TableIds : tasks[tb] # {}}

add_monitor(tb, t, fd, monitor) ==
    /\ tb \in LiveTables /\ t \in tasks[tb]
    /\ ~is_monitoring(fds[tb], fd)
    /\ \E ord \in Orders(tasks[tb]) :
          SetWorld(add_monitor_world(World, tb, ord, fd, monitor))
    /\ UNCHANGED <<tasks, fd_table, is_recording, preload_globals>>
    /\ UNCHANGED <<emu_vars, util_vars, owner_vars>>

did_dup(tb, from, to) ==
    /\ tb \in LiveTables
    /\ \E ord \in Orders(tasks[tb]) :
          SetWorld(did_dup_world(World, tb, ord, from, to))
    /\ UNCHANGED <<tasks, fd_table, is_recording, preload_globals>>
    /\ UNCHANGED <<emu_vars, util_vars, owner_vars>>

did_close(tb, fd) ==
    /\ tb \in LiveTables
    /\ \E ord \in Orders(tasks[tb]) :
          SetWorld(did_close_world(World, tb, ord, fd))
    /\ UNCHANGED <<tasks, fd_table, is_recording, preload_globals>>
    /\ UNCHANGED <<emu_vars, util_vars, owner_vars>>

\* a clone that copies the map and starts the count of fds beyond the limit
\* at 0, as create does
clone_into_task_fresh_count(tb, tb2, t) ==
    /\ tb \in LiveTables
    /\ tb2 \in TableIds \ LiveTables
    /\ fd_table[t] = NoTable
    /\ fds' = [fds EXCEPT ![tb2] = fds[tb]]
    /\ fd_count_beyond_limit' = [fd_count_beyond_limit EXCEPT ![tb2] = 0]
    /\ tasks' = [tasks EXCEPT ![tb2] = {t}]
    /\ fd_table' = [fd_table EXCEPT ![t] = tb2]
    /\ UNCHANGED <<is_recording, preload_globals, syscallbuf_fds_disabled, recorded>>
    /\ UNCHANGED <<emu_vars, util_vars, owner_vars>>

\* clone_into_task(t): a new table tb2 for the task t being created; the
\* caller installs the returned table as t's fd table.
clone_into_task(tb, tb2, t) ==
    /\ tb \in LiveTables
    /\ tb2 \in TableIds \ LiveTables
    /\ fd_table[t] = NoTable
    /\ fds' = [fds EXCEPT ![tb2] = fds[tb]]
    /\ fd_count_beyond_limit' =
          [fd_count_beyond_limit EXCEPT ![tb2] = fd_count_beyond_limit[tb]]
    /\ tasks' = [tasks EXCEPT ![tb2] = {t}]
    /\ fd_table' = [fd_table EXCEPT ![t] = tb2]
    /\ UNCHANGED <<is_recording, preload_globals, syscallbuf_fds_disabled, recorded>>
    /\ UNCHANGED <<emu_vars, util_vars, owner_vars>>

\* fds_to_close_after_exec(t): list is the returned vector, the monitored fds
\* that /proc/<tid>/fd no longer lists (is_fd_open fails), in the map's
\* iteration order.
fds_to_close_after_exec(tb, t, list) ==
    /\ tb \in LiveTables /\ t \in tasks[tb]
    /\ is_recording
    /\ \A i \in 1 .. Len(list) : contains_key(fds[tb], list[i])
    /\ \E ord \in Orders(tasks[tb]) :
          SetWorld(close_each(World, tb, ord, list, 1))
    /\ UNCHANGED <<tasks, fd_table, is_recording, preload_globals>>
    /\ UNCHANGED <<emu_vars, util_vars, owner_vars>>

close_after_exec(tb, t, fds_to_close) ==
    /\ tb \in LiveTables /\ t \in tasks[tb]
    /\ ~is_recording
    /\ \E ord \in Orders(tasks[tb]) :
          SetWorld(close_each(World, tb, ord, fds_to_close, 1))
    /\ UNCHANGED <<tasks, fd_table, is_recording, preload_globals>>
    /\ UNCHANGED <<emu_vars, util_vars, owner_vars>>

\* an init_syscallbuf_fds_disabled that does not ask the session kind
init_syscallbuf_fds_disabled_any_session(W, t) ==
    IF ~preload_globals[t] THEN W
    ELSE write_and_record(W, vm(t), disabled_array(vm(t)))

\* init_syscallbuf_fds_disabled(t) on world W (the ed_assert is the
\* action's guard)
init_syscallbuf_fds_disabled_world(W, t) ==
    IF ~W.is_recording THEN W
    ELSE IF ~preload_globals[t] THEN W
    ELSE write_and_record(W, vm(t), disabled_array(vm(t)))

init_syscallbuf_fds_disabled(tb, t) ==
    /\ tb \in LiveTables
    /\ t \in tasks[tb]
    /\ SetWorld(init_syscallbuf_fds_disabled_world(World, t))
    /\ UNCHANGED <<tasks, fd_table, is_recording, preload_globals>>
    /\ UNCHANGED <<emu_vars, util_vars, owner_vars>>

(***************************************************************************)
(* EmuFs / EmuFile                                                         *)
(***************************************************************************)

\* Most EmuFile objects the model creates, and most strong handles the
\* callers hold on one EmuFile.
MaxFiles == 3
MaxStrong == 2

\* Recorded (device, inode) identities of the mappings the dispatcher passes.
RecordedIds == {<<8, 42>>, <<9, 43>>}
Offsets == {0, 1}
Lengths == {0, 1}

\* KernelMapping::fsname() of the recorded file with that identity
fsname(device, inode) == IF device = 8 THEN "/a" ELSE "/b"

\* KernelMapping: device(), inode(), fsname(), file_offset_bytes(), size().
\* The mappings end within the recorded files, which are empty or one byte
\* long.
KernelMappings ==
    {km \in {[device |-> id[1], inode |-> id[2], fsname |-> fsname(id[1], id[2]),
              file_offset_bytes |-> o, size |-> l] :
                id \in RecordedIds, o \in Offsets, l \in Lengths} :
        km.file_offset_bytes + km.size \in Lengths}

\* EmuFile::BUF_LEN, the number of u64 elements of the copy buffer `data` and
\* the most bytes one pread64 of clone_file asks for.  The code has
\* 65536 / size_of::<u64>(); the model scales it down.
BUF_LEN == 2

\* The bytes of `data`: BUF_LEN elements of size_of::<u64>() = 8 bytes
DataBytes == BUF_LEN * 8

\* File sizes below, equal to and above one copy block
Sizes == 0 .. (BUF_LEN + 1)

\* The values of a byte of a backing object: 0 is what ftruncate fills in,
\* 1 is what the tracee writes.
Bytes == {0, 1}

Min(a, b) == IF a <= b THEN a ELSE b

FileId_new(device, inode) == [device |-> device, inode |-> inode]

FileId_from_kernel_mapping(recorded_map) ==
    [device |-> recorded_map.device, inode |-> recorded_map.inode]

FileId_from_emu_file(emu_file) ==
    [device |-> emu_file.device_, inode |-> emu_file.inode_]

FileIds == {FileId_new(id[1], id[2]) : id \in RecordedIds}

\* Object ids of the EmuFiles created so far
Objs == 1 .. Len(emu_files)

\* An EmuFile is live while its strong count is positive
Live(id) == id \in Objs /\ emu_files[id].strong > 0

\* Weak::upgrade() of the entry under file_id succeeds
upgrades(file_id) == files[file_id] # None /\ Live(files[file_id])

\* ftruncate(fd, num_bytes) on contents m: cut, or extend with zero bytes
resize_shmem_segment(m, num_bytes) ==
    [i \in 1 .. num_bytes |-> IF i <= Len(m) THEN m[i] ELSE 0]

\* a memfd_create that hands out the object created last again
memfd_create_reuse(mem) == IF Len(mem) > 0 THEN Len(mem) ELSE 1

\* memfd_create: the fd of a new, empty shared-memory object
memfd_create(mem) == Len(mem) + 1

\* EmuFile::create with EmuFile::new: a new object holding one strong handle,
\* backed by the object memfd_create returns, resized to orig_file_size.
EmuFile_create(objs, mem, orig_path, orig_device, orig_inode, orig_file_size) ==
    LET fd == memfd_create(mem)
        mem1 == IF fd > Len(mem) THEN Append(mem, <<>>) ELSE mem
    IN [objs |-> Append(objs, [orig_path |-> orig_path, file |-> fd,
                               device_ |-> orig_device, inode_ |-> orig_inode,
                               size_ |-> orig_file_size, strong |-> 1]),
        mem |-> [mem1 EXCEPT ![fd] = resize_shmem_segment(@, orig_file_size)]]

\* ensure_size that sets the size without comparing
ensure_size_always(f, m, size) ==
    [f |-> [f EXCEPT !.size_ = size], m |-> resize_shmem_segment(m, size)]

\* ensure_size that resizes the backing whatever the size is
ensure_size_resizing(f, m, size) ==
    [f |-> IF f.size_ < size THEN [f EXCEPT !.size_ = size] ELSE f,
     m |-> resize_shmem_segment(m, size)]

\* EmuFile::ensure_size on object record f whose backing holds m
ensure_size(f, m, size) ==
    IF f.size_ < size
    THEN [f |-> [f EXCEPT !.size_ = size], m |-> resize_shmem_segment(m, size)]
    ELSE [f |-> f, m |-> m]

\* EmuFile::update.  debug_assertions: the build checks debug_assert!
\* (a debug build) or compiles it out (a release build).
update(f, m, device, inode, size, debug_assertions) ==
    IF debug_assertions /\ ~(f.device_ = device /\ f.inode_ = inode)
    THEN [fatal |-> TRUE, f |-> f, m |-> m]
    ELSE LET u == ensure_size(f, m, size) IN
             [fatal |-> FALSE, f |-> u.f, m |-> u.m]

\* pread64(fd, data, amount, offset): the bytes it delivers, fewer than asked
\* for at the end of the file or when the read is short.
pread64(m, amount, offset, short) ==
    SubSeq(m, offset + 1, Min(offset + (IF short THEN 1 ELSE amount), Len(m)))

\* The return value of pwrite64(fd, data_ptr, amount, offset) for a data_ptr
\* that is data_ptr bytes into `data`: memory past the buffer is not the
\* buffer's, the write stops there and then fails (EFAULT).
pwrite64_ret(data_ptr, amount, short) ==
    IF data_ptr >= DataBytes THEN -1
    ELSE Min(IF short THEN 1 ELSE amount, DataBytes - data_ptr)

\* The contents after pwrite64 of bytes buf at offset: the object grows when
\* the write ends past its end.
pwrite64(m, buf, offset) ==
    [i \in 1 .. (IF offset + Len(buf) > Len(m) THEN offset + Len(buf) ELSE Len(m)) |->
        IF i > offset /\ i <= offset + Len(buf) THEN buf[i - offset]
        ELSE IF i <= Len(m) THEN m[i] ELSE 0]

\* The inner loop of EmuFile::clone_file, `while amount > 0 { pwrite64 .. }`.
\* Its body advances data_ptr and offset by ret_ and leaves amount as it is.
RECURSIVE write_loop(_, _, _, _, _, _)
write_loop(m, data, data_ptr, amount, offset, short) ==
    IF amount > 0
    THEN LET ret_ == pwrite64_ret(data_ptr, amount, short) IN
         IF ret_ <= 0
         THEN [fatal |-> TRUE, m |-> m, offset |-> offset]
         ELSE write_loop(pwrite64(m, SubSeq(data, data_ptr + 1, data_ptr + ret_), offset),
                         data, data_ptr + ret_, amount, offset + ret_, short)
    ELSE [fatal |-> FALSE, m |-> m, offset |-> offset]

\* a copy loop that stops at a read that delivers nothing and returns
RECURSIVE copy_loop_partial(_, _, _, _, _, _)
copy_loop_partial(src, dst, size_, data, offset, short) ==
    IF offset < size_
    THEN LET amount == Min(size_ - offset, BUF_LEN)
             got == pread64(src, amount, offset, short)
             ret_ == Len(got)
         IN IF ret_ <= 0
            THEN [fatal |-> FALSE, m |-> dst]
            ELSE LET data1 == got \o SubSeq(data, ret_ + 1, DataBytes)
                     w == write_loop(dst, data1, 0, ret_, offset, short)
                 IN IF w.fatal
                    THEN [fatal |-> TRUE, m |-> w.m]
                    ELSE copy_loop_partial(src, w.m, size_, data1, w.offset, short)
    ELSE [fatal |-> FALSE, m |-> dst]

\* The outer loop of EmuFile::clone_file, `while offset < self.size_`, from
\* contents src to contents dst; data is the buffer (kept across rounds).
RECURSIVE copy_loop(_, _, _, _, _, _)
copy_loop(src, dst, size_, data, offset, short) ==
    IF offset < size_
    THEN LET amount == Min(size_ - offset, BUF_LEN)
             got == pread64(src, amount, offset, short)
             ret_ == Len(got)
         IN IF ret_ <= 0
            THEN [fatal |-> TRUE, m |-> dst]
            ELSE LET data1 == got \o SubSeq(data, ret_ + 1, DataBytes)
                     w == write_loop(dst, data1, 0, ret_, offset, short)
                 IN IF w.fatal
                    THEN [fatal |-> TRUE, m |-> w.m]
                    ELSE copy_loop(src, w.m, size_, data1, w.offset, short)
    ELSE [fatal |-> FALSE, m |-> dst]

\* EmuFile::clone_file of object id: the objects and backing contents after
\* it, the id f of the copy, and whether it ended in fatal!.
EmuFile_clone_file(objs, mem, id, short) ==
    LET self == objs[id]
        c == EmuFile_create(objs, mem, self.orig_path, self.device_, self.inode_,
                            self.size_)
        f == Len(c.objs)
        data == [i \in 1 .. DataBytes |-> 0]
        copied == copy_loop(c.mem[self.file], c.mem[c.objs[f].file], self.size_,
                            data, 0, short)
    IN [fatal |-> copied.fatal,
        objs |-> c.objs,
        mem |-> [c.mem EXCEPT ![c.objs[f].file] = copied.m],
        f |-> f]

\* destroyed_file that removes nothing
destroyed_file_noop(fm, emu_file) == fm

\* EmuFs::destroyed_file on the map fm
destroyed_file(fm, emu_file) ==
    [fm EXCEPT ![FileId_from_emu_file(emu_file)] = None]

\* an insert that is left out
files_insert_noop(fm, file_id, id) == fm

\* an insert that keeps an entry it finds under the key and puts the new
\* handle under a free key
files_insert_beside(fm, file_id, id) ==
    IF fm[file_id] # None /\ \E k \in DOMAIN fm : fm[k] = None
    THEN [fm EXCEPT ![CHOOSE k \in DOMAIN fm : fm[k] = None] = id]
    ELSE [fm EXCEPT ![file_id] = id]

\* HashMap::insert of a weak handle to object id
files_insert(fm, file_id, id) == [fm EXCEPT ![file_id] = id]

\* A drop of the last handle that does not run Drop for EmuFile
drop_strong_no_callback(objs, fm, id) ==
    [objs |-> [objs EXCEPT ![id].strong = @ - 1], files |-> fm]

\* Dropping one strong handle of object id: the state (objects, map) after
\* Rc's drop, which runs Drop for EmuFile when the count reaches 0.
drop_strong(objs, fm, id) ==
    LET objs1 == [objs EXCEPT ![id].strong = @ - 1] IN
        [objs |-> objs1,
         files |-> IF objs1[id].strong = 0 THEN destroyed_file(fm, objs[id]) ELSE fm]

\* Drop of the ScopedFd of every dead EmuFile: its fd is closed and the
\* shared-memory object goes away with it.
close_fds(mem, objs) ==
    [fd \in 1 .. Len(mem) |->
        IF \E id \in 1 .. Len(objs) : objs[id].file = fd /\ objs[id].strong > 0
        THEN mem[fd] ELSE <<>>]

\* EmuFs::has_file_for
has_file_for(recorded_map) == files[FileId_from_kernel_mapping(recorded_map)] # None

\* EmuFs::size
size == Cardinality({fid \in FileIds : files[fid] # None})

\* `file_offset_bytes() + size()` without the offset
min_file_size_no_offset(recorded_km) == recorded_km.size

\* min_file_size of get_or_create
min_file_size(recorded_km) == recorded_km.file_offset_bytes + recorded_km.size

Abort ==
    /\ fatal' = TRUE
    /\ UNCHANGED <<files, emu_files, shmem, ret>>

\* create_tmpfs_file, which EmuFile::create calls when create_memfd_file
\* returned None: its body is unimplemented!(), a panic, whatever the
\* temporary directories are.
create_tmpfs_file == Abort

\* get_or_create(recorded_km, owner); memfd_ok: memfd_create succeeds.
get_or_create(recorded_km, memfd_ok) ==
    /\ ~fatal
    /\ LET file_id == FileId_from_kernel_mapping(recorded_km)
           min_size == min_file_size(recorded_km)
       IN IF files[file_id] # None
          THEN IF ~upgrades(file_id)
               THEN Abort
               ELSE LET rc == files[file_id] IN
                    \E debug_assertions \in BOOLEAN :
                    LET u == update(emu_files[rc], shmem[emu_files[rc].file],
                                    recorded_km.device, recorded_km.inode,
                                    min_size, debug_assertions)
                    IN IF u.fatal
                    THEN Abort
                    ELSE    /\ emu_files[rc].strong < MaxStrong
                            /\ memfd_ok   \* not consulted here: one step, not two
                            /\ emu_files' =
                                  [emu_files EXCEPT
                                     ![rc] = [u.f EXCEPT !.strong = @ + 1]]
                            /\ shmem' = [shmem EXCEPT ![emu_files[rc].file] = u.m]
                            /\ ret' = [op |-> "get_or_create", arg |-> None,
                                       file |-> rc]
                            /\ UNCHANGED <<files, fatal>>
          ELSE /\ Len(emu_files) < MaxFiles
               /\ IF ~memfd_ok
                  THEN create_tmpfs_file
                  ELSE LET c == EmuFile_create(emu_files, shmem, recorded_km.fsname,
                                               recorded_km.device, recorded_km.inode,
                                               min_size)
                           vf == Len(c.objs)
                       IN /\ emu_files' = c.objs
                          /\ shmem' = c.mem
                          /\ files' = files_insert(files, file_id, vf)
                          /\ ret' = [op |-> "get_or_create", arg |-> None, file |-> vf]
                          /\ UNCHANGED fatal
    /\ UNCHANGED <<fd_vars, util_vars, owner_vars>>

\* EmuFs::clone_file(emu_file).  The caller holds a handle to object id and
\* passes either that handle itself (moved: the parameter's drop at the end
\* of the call takes one strong count away) or a clone of it.  short: the
\* kernel transfers one byte per pread64 / pwrite64.
clone_file(id, moved, memfd_ok, short) ==
    /\ ~fatal
    /\ Live(id)
    /\ Len(emu_files) < MaxFiles
    /\ IF ~memfd_ok
       THEN create_tmpfs_file
       ELSE LET c == EmuFile_clone_file(emu_files, shmem, id, short) IN
            IF c.fatal
            THEN Abort
            ELSE LET fm1 == files_insert(files, FileId_from_emu_file(emu_files[id]),
                                         c.f)
                     after == IF moved THEN drop_strong(c.objs, fm1, id)
                              ELSE [objs |-> c.objs, files |-> fm1]
                 IN /\ emu_files' = after.objs
                    /\ shmem' = close_fds(c.mem, after.objs)
                    /\ files' = after.files
                    /\ ret' = [op |-> "clone_file", arg |-> id, file |-> c.f]
                    /\ UNCHANGED fatal
    /\ UNCHANGED <<fd_vars, util_vars, owner_vars>>

\* EmuFs::find(device, inode): the caller keeps the handle it gets.
find(device, inode) ==
    /\ ~fatal
    /\ LET file_id == FileId_new(device, inode) IN
          IF files[file_id] = None
          THEN /\ ret' = [op |-> "find", arg |-> None, file |-> None]
               /\ UNCHANGED <<files, emu_files, shmem, fatal>>
          ELSE IF ~upgrades(file_id)
               THEN Abort
               ELSE /\ emu_files[files[file_id]].strong < MaxStrong
                    /\ emu_files' = [emu_files EXCEPT ![files[file_id]].strong = @ + 1]
                    /\ ret' = [op |-> "find", arg |-> None, file |-> files[file_id]]
                    /\ UNCHANGED <<files, shmem, fatal>>
    /\ UNCHANGED <<fd_vars, util_vars, owner_vars>>

\* an at that does not return when the file does not exist
at_strict(recorded_map) ==
    /\ ~fatal
    /\ LET file_id == FileId_from_kernel_mapping(recorded_map) IN
          IF files[file_id] = None \/ ~upgrades(file_id)
          THEN Abort
          ELSE /\ emu_files[files[file_id]].strong < MaxStrong
               /\ emu_files' = [emu_files EXCEPT ![files[file_id]].strong = @ + 1]
               /\ ret' = [op |-> "at", arg |-> None, file |-> files[file_id]]
               /\ UNCHANGED <<files, shmem, fatal>>
    /\ UNCHANGED <<fd_vars, util_vars, owner_vars>>

\* EmuFs::at(recorded_map): the caller keeps the handle it gets.
at(recorded_map) ==
    /\ ~fatal
    /\ LET file_id == FileId_from_kernel_mapping(recorded_map) IN
          IF files[file_id] = None
          THEN /\ ret' = [op |-> "at", arg |-> None, file |-> None]
               /\ UNCHANGED <<files, emu_files, shmem, fatal>>
          ELSE IF ~upgrades(file_id)
               THEN Abort
               ELSE /\ emu_files[files[file_id]].strong < MaxStrong
                    /\ emu_files' = [emu_files EXCEPT ![files[file_id]].strong = @ + 1]
                    /\ ret' = [op |-> "at", arg |-> None, file |-> files[file_id]]
                    /\ UNCHANGED <<files, shmem, fatal>>
    /\ UNCHANGED <<fd_vars, util_vars, owner_vars>>

\* a destructor that releases the backing fd before it calls destroyed_file
drop_steps_close_first(objs, fm, id) ==
    LET open == {i \in 1 .. Len(objs) : objs[i].strong > 0} IN
    IF objs[id].strong = 1
    THEN <<[files |-> fm, open |-> open \ {id}],
           [files |-> destroyed_file(fm, objs[id]), open |-> open \ {id}]>>
    ELSE <<[files |-> fm, open |-> open]>>

\* What the drop of a strong handle to object id passes through: the
\* entries of the EmuFs and the objects whose backing fd is open, after
\* Drop::drop of the EmuFile has run (it runs when the handle is the last)
\* and then after the fields of the EmuFile, its ScopedFd among them, are
\* dropped.
drop_steps(objs, fm, id) ==
    LET open == {i \in 1 .. Len(objs) : objs[i].strong > 0} IN
    IF objs[id].strong = 1
    THEN <<[files |-> destroyed_file(fm, objs[id]), open |-> open],
           [files |-> destroyed_file(fm, objs[id]), open |-> open \ {id}]>>
    ELSE <<[files |-> fm, open |-> open]>>

\* A caller drops one strong handle of object id (Rc drop; Drop for EmuFile
\* runs when it was the last one).
drop_handle(id) ==
    /\ ~fatal
    /\ Live(id)
    /\ IF emu_fs_strong = 0 /\ emu_files[id].strong = 1
       THEN \* owner_mut() dereferences the pointer to an EmuFs that is freed:
            \* the process crashes, or destroyed_file works on freed memory
            \* and the destructor goes on.
            \E crash \in BOOLEAN :
                /\ fatal' = crash
                /\ emu_files' = [emu_files EXCEPT ![id].strong = 0]
                /\ shmem' = close_fds(shmem, emu_files')
                /\ UNCHANGED files
       ELSE LET after == drop_strong(emu_files, files, id) IN
               /\ emu_files' = after.objs
               /\ shmem' = close_fds(shmem, after.objs)
               /\ files' = after.files
               /\ UNCHANGED fatal
    /\ ret' = [op |-> "drop", arg |-> id, file |-> None]
    /\ UNCHANGED <<fd_vars, util_vars, owner_vars>>

\* A holder of the EmuFs clones its handle (EmuFsSharedPtr is an Rc).
clone_emu_fs ==
    /\ ~fatal
    /\ emu_fs_strong > 0
    /\ emu_fs_strong < MaxStrong
    /\ emu_fs_strong' = emu_fs_strong + 1
    /\ ret' = [op |-> "clone_emu_fs", arg |-> None, file |-> None]
    /\ UNCHANGED <<files, emu_files, shmem, fatal>>
    /\ UNCHANGED <<fd_vars, util_vars>>

\* A holder drops its handle to the EmuFs.  No EmuFile holds one (its owner
\* is a raw pointer): with the last handle the EmuFs and its map of weak
\* handles are freed, whatever EmuFiles are alive.
drop_emu_fs ==
    /\ ~fatal
    /\ emu_fs_strong > 0
    /\ emu_fs_strong' = emu_fs_strong - 1
    /\ files' = IF emu_fs_strong = 1 THEN [fid \in FileIds |-> None] ELSE files
    /\ ret' = [op |-> "drop_emu_fs", arg |-> None, file |-> None]
    /\ UNCHANGED <<emu_files, shmem, fatal>>
    /\ UNCHANGED <<fd_vars, util_vars>>

\* A holder of a handle to object id calls EmuFile::ensure_size(size).
call_ensure_size(id, size_arg) ==
    /\ ~fatal
    /\ Live(id)
    /\ LET u == ensure_size(emu_files[id], shmem[emu_files[id].file], size_arg) IN
          /\ emu_files' = [emu_files EXCEPT ![id] = u.f]
          /\ shmem' = [shmem EXCEPT ![emu_files[id].file] = u.m]
    /\ ret' = [op |-> "ensure_size", arg |-> id, file |-> None]
    /\ UNCHANGED <<files, fatal>>
    /\ UNCHANGED <<fd_vars, util_vars, owner_vars>>

\* EmuFile::update(device, inode, size) of the live object id, called as
\* get_or_create calls it but with any identity.
call_update(id, device, inode, size_arg, debug_assertions) ==
    /\ ~fatal
    /\ Live(id)
    /\ LET u == update(emu_files[id], shmem[emu_files[id].file], device, inode,
                       size_arg, debug_assertions)
       IN IF u.fatal
          THEN Abort
          ELSE /\ emu_files' = [emu_files EXCEPT ![id] = u.f]
               /\ shmem' = [shmem EXCEPT ![emu_files[id].file] = u.m]
               /\ ret' = [op |-> "update", arg |-> id, file |-> None]
               /\ UNCHANGED <<files, fatal>>
    /\ UNCHANGED <<fd_vars, util_vars, owner_vars>>

\* The tracee stores byte b at offset o of its shared mapping of the backing
\* object of EmuFile id.
write_backing(id, o, b) ==
    /\ ~fatal
    /\ Live(id)
    /\ o < Len(shmem[emu_files[id].file])
    /\ shmem' = [shmem EXCEPT ![emu_files[id].file][o + 1] = b]
    /\ ret' = [op |-> "write", arg |-> id, file |-> None]
    /\ UNCHANGED <<files, emu_files, fatal>>
    /\ UNCHANGED <<fd_vars, util_vars, owner_vars>>

(***************************************************************************)
(* Utility functions (src/util.rs)                                         *)
(***************************************************************************)

\* A path or the value of an environment variable is the sequence of its
\* characters. What env::var_os gives is the set of the values it holds:
\* Unset for None, Some(v) for a variable that is set to v. NotUnicode is a
\* value that is not valid Unicode.
Unset == {}
Some(v) == {v}
NotUnicode == <<"0xFF">>
value(some) == CHOOSE v \in some : TRUE
P_d == <<"/", "d">>
P_de == <<"/", "d", "/", "e">>
P_def == <<"/", "d", "/", "e", "/", "f">>
P_tmp == <<"/", "t", "m", "p">>

\* What the file system has under a path: nothing (ENOENT), a directory the
\* process can write to, a directory it can not write to, a regular file,
\* or something stat fails on with another errno.
Kinds == {"absent", "dir", "dir_ro", "file", "error"}

\* The paths the file systems of the model know, and the file systems: an
\* entry is under a directory.
FsPaths == {P_d, P_de, P_def, P_tmp}
FileSystems ==
    {fs \in [FsPaths -> Kinds] :
        /\ fs[P_d] \notin {"dir", "dir_ro"} => fs[P_de] = "absent"
        /\ fs[P_de] \notin {"dir", "dir_ro"} => fs[P_def] = "absent"
        /\ fs[P_tmp] \in {"absent", "dir", "dir_ro"}}

\* stat(d): the kind found, "absent" for ENOENT
stat(fs, d) == IF d \in DOMAIN fs THEN fs[d] ELSE "absent"

\* access(d, W_OK).is_ok()
access_W_OK(fs, d) == stat(fs, d) = "dir"

\* `while d.len() > 0 && d[d.len() - 1] == b'/'`: d without trailing slashes
RECURSIVE strip_trailing_slashes(_)
strip_trailing_slashes(d) ==
    IF Len(d) > 0 /\ d[Len(d)] = "/"
    THEN strip_trailing_slashes(SubSeq(d, 1, Len(d) - 1))
    ELSE d

\* rfind of '/': the 0-based position of the last slash, -1 for None
last_slash(d) ==
    LET S == {i \in 1 .. Len(d) : d[i] = "/"} IN
        IF S = {} THEN -1 ELSE (CHOOSE i \in S : \A j \in S : j <= i) - 1

\* ensure_dir(dir, dir_type, mode) on file system fs; mkdir_ok: mkdir
\* succeeds (or fails with EEXIST because someone else made the directory).
\* Gives whether it ended in fatal! and the file system it leaves.
RECURSIVE ensure_dir(_, _, _)
ensure_dir(fs, dir, mkdir_ok) ==
    LET d == strip_trailing_slashes(dir)
        pos == last_slash(d)
        made == IF stat(fs, d) # "absent" THEN [fatal |-> FALSE, fs |-> fs]
                ELSE IF pos > 0
                THEN LET r == ensure_dir(fs, SubSeq(d, 1, pos), mkdir_ok) IN
                     IF r.fatal THEN r
                     ELSE IF ~mkdir_ok THEN [fatal |-> TRUE, fs |-> r.fs]
                     ELSE [fatal |-> FALSE, fs |-> [r.fs EXCEPT ![d] = "dir"]]
                ELSE [fatal |-> TRUE, fs |-> fs]
        st == stat(made.fs, d)
    IN IF made.fatal THEN made
       ELSE IF st = "error" THEN [fatal |-> TRUE, fs |-> made.fs]
       ELSE IF st # "dir" /\ st # "dir_ro" THEN [fatal |-> TRUE, fs |-> made.fs]
       ELSE IF ~access_W_OK(made.fs, d) THEN [fatal |-> TRUE, fs |-> made.fs]
       ELSE made

\* tmp_dir() in environment and file system `in`: whether it ended in
\* fatal!, the directory it returns otherwise, and the file system it leaves.
tmp_dir(in) ==
    IF in.RD_TMPDIR # Unset
    THEN LET r == ensure_dir(in.fs, value(in.RD_TMPDIR), in.mkdir_ok) IN
         [op |-> "tmp_dir", fatal |-> r.fatal, dir |-> value(in.RD_TMPDIR), fs |-> r.fs]
    ELSE IF in.TMPDIR # Unset
    THEN LET r == ensure_dir(in.fs, value(in.TMPDIR), in.mkdir_ok) IN
         [op |-> "tmp_dir", fatal |-> r.fatal, dir |-> value(in.TMPDIR), fs |-> r.fs]
    ELSE [op |-> "tmp_dir", fatal |-> access_W_OK(in.fs, P_tmp), dir |-> P_tmp,
          fs |-> in.fs]

\* path.as_bytes().starts_with(prefix)
starts_with(path, prefix) ==
    Len(path) >= Len(prefix) /\ SubSeq(path, 1, Len(prefix)) = prefix

\* is_tmp_file(path): env::var("RD_TRUST_TEMP_FILES") is Err for a variable
\* that is unset or not Unicode; f_type is the type statfs reports for the
\* file system of path and statfs_ok whether statfs succeeds (unwrap panics
\* when it does not).
is_tmp_file(in) ==
    LET v == in.RD_TRUST_TEMP_FILES IN
    IF v = Unset \/ v = Some(NotUnicode) \/ v = Some(<<>>)
    THEN [op |-> "is_tmp_file", fatal |-> FALSE, statfs_called |-> FALSE,
          result |-> TRUE]
    ELSE IF ~in.statfs_ok
    THEN [op |-> "is_tmp_file", fatal |-> TRUE, statfs_called |-> TRUE,
          result |-> FALSE]
    ELSE [op |-> "is_tmp_file", fatal |-> FALSE, statfs_called |-> TRUE,
          result |-> (in.f_type = "tmpfs"
                      \/ starts_with(in.path, <<"/", "t", "m", "p", "/">>))]

\* Most bytes of a buffer handed to pwrite_all_fallible
MaxBuf == 3

\* The return value of the k-th pwrite64 of a call, asked to write cur_size
\* bytes, under schedule sched: sched[k] is -1 (the write fails), 0, or the
\* most bytes the kernel takes in that write.
pwrite64_sched(sched, k, cur_size) ==
    IF sched[k] <= 0 THEN sched[k] ELSE Min(sched[k], cur_size)

\* The loop of pwrite_all_fallible, `while cur_size > 0`, at its k-th
\* pwrite64: file is the contents of fd, buf the bytes not yet written.
RECURSIVE pwrite_all_loop(_, _, _, _, _, _, _)
pwrite_all_loop(file, buf, offset, written, cur_size, sched, k) ==
    IF cur_size > 0
    THEN LET ret_ == pwrite64_sched(sched, k, cur_size) IN
         IF written > 0 /\ ret_ <= 0
         THEN [ok |-> TRUE, n |-> written, file |-> file]
         ELSE IF written = 0 /\ ret_ = 0
         THEN [ok |-> TRUE, n |-> written, file |-> file]
         ELSE IF ret_ < 0
         THEN [ok |-> FALSE, n |-> 0, file |-> file]
         ELSE pwrite_all_loop(pwrite64(file, SubSeq(buf, 1, ret_), offset),
                              SubSeq(buf, ret_ + 1, Len(buf)), offset,
                              written + ret_, cur_size - ret_, sched, k + 1)
    ELSE [ok |-> TRUE, n |-> written, file |-> file]

\* pwrite_all_fallible(fd, buf_initial, offset): Ok(n) or Err(()), and the
\* contents of fd after it.
pwrite_all_fallible(in) ==
    LET r == pwrite_all_loop(in.file, in.buf_initial, in.offset, 0,
                             Len(in.buf_initial), in.sched, 1)
    IN [op |-> "pwrite_all_fallible", ok |-> r.ok, n |-> r.n, file |-> r.file]

(***************************************************************************)
(* Replay of task events (src/replay_syscall.rs)                           *)
(***************************************************************************)

\* Most task events of a trace, and the latest frame time
MaxEvents == 3
MaxTime == 3

\* TraceTaskEventType of the events of the model
TaskEventTypes == {"Clone", "Exec"}

\* The loop of read_task_trace_event at the k-th task event of the trace:
\* read_task_event gives None at the end of the trace, else the event and
\* its time.  index is the event returned; corrupt: the ed_assert of the
\* end of the trace failed; fatal: that one or the final ed_assert did.
RECURSIVE read_task_trace_event_loop(_, _, _, _)
read_task_trace_event_loop(events, k, current_frame_time, task_event_type) ==
    IF k > Len(events)
    THEN [op |-> "read_task_trace_event", fatal |-> TRUE, corrupt |-> TRUE,
          index |-> 0]
    ELSE IF events[k].time >= current_frame_time
            \/ events[k].event_type = task_event_type
    THEN [op |-> "read_task_trace_event",
          fatal |-> ~(events[k].time = current_frame_time), corrupt |-> FALSE,
          index |-> k]
    ELSE read_task_trace_event_loop(events, k + 1, current_frame_time,
                                    task_event_type)

\* read_task_trace_event(t, task_event_type) on a trace reader that is at
\* the first of in.events, for a task whose current_frame_time() is
\* in.current_frame_time
read_task_trace_event(in) ==
    read_task_trace_event_loop(in.events, 1, in.current_frame_time,
                               in.task_event_type)

(***************************************************************************)
(* Specifications                                                          *)
(***************************************************************************)

\* The identity a recorded mapping names
KmId(km) == [device |-> km.device, inode |-> km.inode]

NoRet == [op |-> "none", arg |-> None, file |-> None]

InitEmu ==
    /\ files = [fid \in FileIds |-> None]
    /\ emu_files = <<>>
    /\ shmem = <<>>
    /\ ret = NoRet
    /\ fatal = FALSE
    /\ emu_fs_strong = 1

\* No FdTable call was made yet (or the specification does not keep it)
NoOp == [op |-> "none", tb |-> NoTable, from |-> 0, fd |-> 0, list |-> <<>>]

\* No utility function is called
NoCall == [op |-> "none"]

InitUtil == input = NoCall /\ output = NoCall

ZeroBitmaps ==
    [v \in AddressSpaces |-> [i \in 0 .. (SYSCALLBUF_FDS_DISABLED_SIZE - 1) |-> 0]]

\* Layout of SpecFd: table T1 created for t1; t2 (another address space) is
\* created later with a table of its own, by clone_into_task; t3 never runs.
\* The session is a recording or a replay session.
InitFd ==
    /\ fds = [tb \in TableIds |-> [fd \in FDs |-> NoMonitor]]
    /\ fd_count_beyond_limit = [tb \in TableIds |-> 0]
    /\ tasks = [tb \in TableIds |-> IF tb = "T1" THEN {"t1"} ELSE {}]
    /\ fd_table = [t \in TaskIds |->
                     IF t = "t1" THEN "T1" ELSE IF t = "t2" THEN NoTable ELSE Gone]
    /\ is_recording \in BOOLEAN
    /\ preload_globals = [t \in TaskIds |-> TRUE]
    /\ syscallbuf_fds_disabled = ZeroBitmaps
    /\ recorded = ZeroBitmaps
    /\ last_op = NoOp

\* Layout of SpecFdBitmap, a recording session: table T1 is shared by t1
\* (address space A) and t2 (address space B), which have their preload
\* globals; t3 is created later in address space A with a table of its own,
\* by clone_into_task, and has its preload globals or not.
InitFdShared ==
    /\ fds = [tb \in TableIds |-> [fd \in FDs |-> NoMonitor]]
    /\ fd_count_beyond_limit = [tb \in TableIds |-> 0]
    /\ tasks = [tb \in TableIds |-> IF tb = "T1" THEN {"t1", "t2"} ELSE {}]
    /\ fd_table = [t \in TaskIds |-> IF t = "t3" THEN NoTable ELSE "T1"]
    /\ is_recording = TRUE
    /\ preload_globals \in {[t \in TaskIds |-> TRUE],
                            [t \in TaskIds |-> t # "t3"]}
    /\ syscallbuf_fds_disabled = ZeroBitmaps
    /\ recorded = ZeroBitmaps
    /\ last_op = NoOp

AddMonitor == \E tb \in TableIds, t \in TaskIds, fd \in FDs, m \in Monitors :
                 add_monitor(tb, t, fd, m) /\ UNCHANGED last_op
DidDup == \E tb \in TableIds, from \in FDs, to \in FDs :
             did_dup(tb, from, to) /\ UNCHANGED last_op
DidClose == \E tb \in TableIds, fd \in FDs : did_close(tb, fd) /\ UNCHANGED last_op
CloneIntoTask == \E tb \in TableIds, tb2 \in TableIds, t \in TaskIds :
                    clone_into_task(tb, tb2, t) /\ UNCHANGED last_op
\* The fds one exec closes: at most two, each once.
ExecClosed == {<<>>} \cup {<<a>> : a \in FDs}
                  \cup {<<p[1], p[2]>> : p \in {q \in FDs \X FDs : q[1] # q[2]}}
FdsToCloseAfterExec ==
    \E tb \in TableIds, t \in TaskIds, list \in ExecClosed :
        fds_to_close_after_exec(tb, t, list) /\ UNCHANGED last_op
\* The lists replay passes: any two fds, monitored or not, repeats included.
CloseLists == {<<>>} \cup {<<a>> : a \in FDs} \cup {<<a, b>> : a \in FDs, b \in FDs}
CloseAfterExec ==
    \E tb \in TableIds, t \in TaskIds, list \in CloseLists :
        close_after_exec(tb, t, list) /\ UNCHANGED last_op
InitSyscallbufFdsDisabled ==
    \E tb \in TableIds, t \in TaskIds :
        init_syscallbuf_fds_disabled(tb, t) /\ UNCHANGED last_op

NextFd ==
    \/ AddMonitor
    \/ DidDup
    \/ DidClose
    \/ CloneIntoTask
    \/ FdsToCloseAfterExec
    \/ CloseAfterExec

InitSpecFd == InitFd /\ InitEmu /\ InitUtil

SpecFd == InitSpecFd /\ [][NextFd]_vars

\* In SpecFdBitmap every monitor added is the same monitor object.
AddMonitorM1 == \E tb \in TableIds, t \in TaskIds, fd \in FDs :
                   add_monitor(tb, t, fd, "m1") /\ UNCHANGED last_op

NextFdBitmap ==
    \/ AddMonitorM1
    \/ DidDup
    \/ DidClose
    \/ CloneIntoTask
    \/ FdsToCloseAfterExec
    \/ InitSyscallbufFdsDisabled

InitSpecFdBitmap == InitFdShared /\ InitEmu /\ InitUtil

SpecFdBitmap == InitSpecFdBitmap /\ [][NextFdBitmap]_vars

\* The keys of a set of fds in ascending order
RECURSIVE Ascending(_)
Ascending(S) ==
    IF S = {} THEN <<>>
    ELSE LET x == CHOOSE x \in S : \A y \in S : x <= y
         IN <<x>> \o Ascending(S \ {x})

\* An exec of a task of the table closes the monitored fds of `closed` (at
\* most two, iterated in that order before the keys that stay open);
\* /proc/<tid>/fd lists the other monitored fds afterwards and, with
\* others_open, every fd that is not monitored.
FdsToCloseAfterExecScan ==
    \E tb \in TableIds, t \in TaskIds, closed \in ExecClosed, others_open \in BOOLEAN :
        /\ \A i \in 1 .. Len(closed) : closed[i] \in keys(fds[tb])
        /\ LET closed_set == {closed[i] : i \in 1 .. Len(closed)}
               open_fds == (keys(fds[tb]) \ closed_set)
                              \cup (IF others_open THEN FDs \ keys(fds[tb]) ELSE {})
               key_order == closed \o Ascending(keys(fds[tb]) \ closed_set)
               list == fds_no_longer_open(key_order, open_fds)
           IN /\ fds_to_close_after_exec(tb, t, list)
              /\ last_op' = [op |-> "fds_to_close_after_exec", tb |-> tb, from |-> 0,
                            fd |-> 0, list |-> list]

\* SpecFdOps: one FdTable shared by t1 and t2 (two address spaces) for the
\* whole run, in a recording session, with both monitor objects.
InitFdOps ==
    /\ fds = [tb \in TableIds |-> [fd \in FDs |-> NoMonitor]]
    /\ fd_count_beyond_limit = [tb \in TableIds |-> 0]
    /\ tasks = [tb \in TableIds |-> IF tb = "T1" THEN {"t1", "t2"} ELSE {}]
    /\ fd_table = [t \in TaskIds |-> IF t = "t3" THEN Gone ELSE "T1"]
    /\ is_recording = TRUE
    /\ preload_globals = [t \in TaskIds |-> TRUE]
    /\ syscallbuf_fds_disabled = ZeroBitmaps
    /\ recorded = ZeroBitmaps
    /\ last_op = NoOp

\* The calls of SpecFdOps and SpecFdClone keep the name of the call and its
\* arguments (fd is the fd the call is about, for did_dup `to`; list is the
\* vector fds_to_close_after_exec returns).  F: the fds the calls are about.
AddMonitorIn(F) ==
    \E tb \in TableIds, t \in TaskIds, fd \in F, m \in Monitors :
        /\ add_monitor(tb, t, fd, m)
        /\ last_op' = [op |-> "add_monitor", tb |-> tb, from |-> 0, fd |-> fd,
                       list |-> <<>>]
DidDupIn(F) ==
    \E tb \in TableIds, from \in F, to \in F :
        /\ did_dup(tb, from, to)
        /\ last_op' = [op |-> IF is_monitoring(fds[tb], from)
                               THEN "did_dup" ELSE "did_dup_unmonitored",
                       tb |-> tb, from |-> from, fd |-> to, list |-> <<>>]
DidCloseIn(F) ==
    \E tb \in TableIds, fd \in F :
        /\ did_close(tb, fd)
        /\ last_op' = [op |-> IF is_monitoring(fds[tb], fd)
                               THEN "did_close" ELSE "did_close_unmonitored",
                       tb |-> tb, from |-> 0, fd |-> fd, list |-> <<>>]
CloneIntoTaskOps ==
    \E tb \in TableIds, tb2 \in TableIds, t \in TaskIds :
        /\ clone_into_task(tb, tb2, t)
        /\ last_op' = [op |-> "clone_into_task", tb |-> tb2, from |-> 0, fd |-> 0,
                       list |-> <<>>]

AddMonitorOps == AddMonitorIn(FDs)
DidDupOps == DidDupIn(FDs)
DidCloseOps == DidCloseIn(FDs)

NextFdOps ==
    \/ AddMonitorOps
    \/ DidDupOps
    \/ DidCloseOps
    \/ FdsToCloseAfterExecScan

InitSpecFdOps == InitFdOps /\ InitEmu /\ InitUtil

SpecFdOps == InitSpecFdOps /\ [][NextFdOps]_vars

\* SpecFdClone: a recording session in which t1 has table T1 and t2 is
\* created with a clone of it; the calls are about one fd below the final
\* byte of the bitmap, the fd of the final byte and one fd beyond it.
CloneFds == {0, SYSCALLBUF_FDS_DISABLED_SIZE - 1, SYSCALLBUF_FDS_DISABLED_SIZE}

AddMonitorClone == AddMonitorIn(CloneFds)
DidDupClone == DidDupIn(CloneFds)
DidCloseClone == DidCloseIn(CloneFds)

NextFdClone ==
    \/ AddMonitorClone
    \/ DidDupClone
    \/ DidCloseClone
    \/ CloneIntoTaskOps

InitSpecFdClone == InitFd /\ is_recording /\ InitEmu /\ InitUtil

SpecFdClone == InitSpecFdClone /\ [][NextFdClone]_vars

\* SpecFdReplay: a replay session with the layout of SpecFd; the tables are
\* mutated, closed after an exec from the recorded list, and
\* init_syscallbuf_fds_disabled is called for their tasks.  The calls are
\* about the fds of CloneFds.
CloseAfterExecClone ==
    \E tb \in TableIds, t \in TaskIds,
       list \in {l \in CloseLists : \A i \in 1 .. Len(l) : l[i] \in CloneFds} :
        /\ close_after_exec(tb, t, list)
        /\ last_op' = [op |-> "close_after_exec", tb |-> tb, from |-> 0, fd |-> 0,
                       list |-> list]
InitSyscallbufFdsDisabledOps ==
    \E tb \in TableIds, t \in TaskIds :
        /\ init_syscallbuf_fds_disabled(tb, t)
        /\ last_op' = [op |-> "init_syscallbuf_fds_disabled", tb |-> tb,
                       from |-> 0, fd |-> 0, list |-> <<>>]

NextFdReplay ==
    \/ AddMonitorClone
    \/ DidDupClone
    \/ DidCloseClone
    \/ CloneIntoTaskOps
    \/ CloseAfterExecClone
    \/ InitSyscallbufFdsDisabledOps

InitSpecFdReplay == InitFd /\ ~is_recording /\ InitEmu /\ InitUtil

SpecFdReplay == InitSpecFdReplay /\ [][NextFdReplay]_vars

GetOrCreate == \E km \in KernelMappings, ok \in BOOLEAN : get_or_create(km, ok)
CloneFile == \E id \in 1 .. MaxFiles, moved \in BOOLEAN, ok \in BOOLEAN,
                   short \in BOOLEAN :
                clone_file(id, moved, ok, short)
Find == \E id \in RecordedIds : find(id[1], id[2])
At == \E km \in KernelMappings : at(km)
DropHandle == \E id \in 1 .. MaxFiles : drop_handle(id)

NextEmu ==
    \/ GetOrCreate
    \/ CloneFile
    \/ Find
    \/ At
    \/ DropHandle

\* The FdTable side is frozen in its initial state (replay session).
InitSpecEmu == InitFd /\ ~is_recording /\ InitEmu /\ InitUtil

SpecEmu == InitSpecEmu /\ [][NextEmu]_vars

EnsureSize == \E id \in 1 .. MaxFiles, n \in Sizes : call_ensure_size(id, n)
\* The offsets the tracee writes at: those of the first copy block.
WriteOffsets == 0 .. (BUF_LEN - 1)
WriteBacking == \E id \in 1 .. MaxFiles, o \in WriteOffsets, b \in Bytes :
                   write_backing(id, o, b)

\* Most EmuFile objects SpecEmuData creates.
MaxDataFiles == 2

\* In SpecEmuData every mapping is of the one recorded file on device 8 and
\* starts at offset 0, and memfd_create succeeds.
GetOrCreateData ==
    \E km \in {k \in KernelMappings : k.device = 8 /\ k.file_offset_bytes = 0} :
        /\ files[KmId(km)] = None => Len(emu_files) < MaxDataFiles
        /\ get_or_create(km, TRUE)
CloneFileData == \E id \in 1 .. MaxFiles, moved \in BOOLEAN, short \in BOOLEAN :
                    /\ Len(emu_files) < MaxDataFiles
                    /\ clone_file(id, moved, TRUE, short)

NextEmuData ==
    \/ GetOrCreateData
    \/ CloneFileData
    \/ EnsureSize
    \/ WriteBacking

SpecEmuData == InitSpecEmu /\ [][NextEmuData]_vars

\* SpecEmuRead: the files of SpecEmuData, never written to, whose backing
\* objects can end before size_ bytes: the pread64 of clone_file then
\* returns 0.
truncate_backing(id, n) ==
    /\ ~fatal
    /\ Live(id)
    /\ n < Len(shmem[emu_files[id].file])
    /\ shmem' = [shmem EXCEPT ![emu_files[id].file] = SubSeq(@, 1, n)]
    /\ ret' = [op |-> "truncate", arg |-> id, file |-> None]
    /\ UNCHANGED <<files, emu_files, fatal>>
    /\ UNCHANGED <<fd_vars, util_vars, owner_vars>>

TruncateBacking == \E id \in 1 .. MaxFiles, n \in Sizes : truncate_backing(id, n)

NextEmuRead ==
    \/ GetOrCreateData
    \/ CloneFileData
    \/ EnsureSize
    \/ TruncateBacking

InitSpecEmuRead == InitFd /\ ~is_recording /\ InitEmu /\ InitUtil

SpecEmuRead == InitSpecEmuRead /\ [][NextEmuRead]_vars

\* SpecEmuOwner: the holders of the EmuFs create files through it and drop
\* their handles to the files and to the EmuFs in any order.
GetOrCreateOwned ==
    \E km \in KernelMappings : emu_fs_strong > 0 /\ get_or_create(km, TRUE)

CloneEmuFs == clone_emu_fs

DropEmuFs == drop_emu_fs

NextEmuOwner ==
    \/ GetOrCreateOwned
    \/ DropHandle
    \/ CloneEmuFs
    \/ DropEmuFs

InitSpecEmuOwner == InitFd /\ ~is_recording /\ InitEmu /\ InitUtil

SpecEmuOwner == InitSpecEmuOwner /\ [][NextEmuOwner]_vars

\* SpecEmuUpdate: the files of SpecEmuData, grown by EmuFile::update called
\* with either recorded identity, in a debug or a release build.
Update == \E id \in 1 .. MaxFiles, rid \in RecordedIds, n \in Sizes,
             debug_assertions \in BOOLEAN :
             call_update(id, rid[1], rid[2], n, debug_assertions)

NextEmuUpdate ==
    \/ GetOrCreateData
    \/ Update
    \/ WriteBacking

InitSpecEmuUpdate == InitFd /\ ~is_recording /\ InitEmu /\ InitUtil

SpecEmuUpdate == InitSpecEmuUpdate /\ [][NextEmuUpdate]_vars

\* SpecFdExec: T1 is the table of task t1 of a recording session and T2 the
\* table of task t2 of the replay of that recording.  They start with the
\* same fds, any there are; the exec of t1 is recorded with
\* fds_to_close_after_exec and replayed with close_after_exec on the
\* vector the trace carries.
BeyondLimit_of(f) ==
    Cardinality({fd \in FDs : f[fd] # NoMonitor /\ fd >= SYSCALLBUF_FDS_DISABLED_SIZE})

InitSpecFdExec ==
    /\ \E f \in [FDs -> Monitors \cup {NoMonitor}] :
          /\ fds = [tb \in TableIds |-> f]
          /\ fd_count_beyond_limit = [tb \in TableIds |-> BeyondLimit_of(f)]
    /\ tasks = [tb \in TableIds |-> IF tb = "T1" THEN {"t1"} ELSE {"t2"}]
    /\ fd_table = [t \in TaskIds |->
                     IF t = "t1" THEN "T1" ELSE IF t = "t2" THEN "T2" ELSE Gone]
    /\ is_recording = TRUE
    /\ preload_globals = [t \in TaskIds |-> TRUE]
    /\ syscallbuf_fds_disabled = ZeroBitmaps
    /\ recorded = ZeroBitmaps
    /\ last_op = NoOp
    /\ InitEmu /\ InitUtil

ExecRecorded ==
    /\ last_op = NoOp
    /\ \E key_order \in Orders(keys(fds["T1"])), open_fds \in SUBSET FDs :
          LET r == fds_to_close_after_exec_world(
                       [World EXCEPT !.is_recording = TRUE], "T1", <<"t1">>,
                       key_order, open_fds)
          IN /\ SetWorld(r.W)
             /\ last_op' = [op |-> "fds_to_close_after_exec", tb |-> "T1",
                            from |-> 0, fd |-> 0, list |-> r.list]
    /\ UNCHANGED <<tasks, fd_table, is_recording, preload_globals>>
    /\ UNCHANGED <<emu_vars, util_vars, owner_vars>>

ExecReplayed ==
    /\ last_op.op = "fds_to_close_after_exec"
    /\ SetWorld(close_after_exec_world([World EXCEPT !.is_recording = FALSE],
                                       "T2", <<"t2">>, last_op.list))
    /\ last_op' = [last_op EXCEPT !.op = "close_after_exec", !.tb = "T2"]
    /\ UNCHANGED <<tasks, fd_table, is_recording, preload_globals>>
    /\ UNCHANGED <<emu_vars, util_vars, owner_vars>>

NextFdExec ==
    \/ ExecRecorded
    \/ ExecReplayed

SpecFdExec == InitSpecFdExec /\ [][NextFdExec]_vars

\* SpecUtil: one call of a utility function of src/util.rs, for every
\* environment and file system of the model.
TmpDirInputs ==
    {[op |-> "tmp_dir", RD_TMPDIR |-> a, TMPDIR |-> b, fs |-> fs, mkdir_ok |-> ok] :
        a \in {Unset, Some(<<>>), Some(P_de \o <<"/">>), Some(P_def)},
        b \in {Unset, Some(<<>>), Some(P_de \o <<"/">>), Some(P_def)},
        fs \in FileSystems, ok \in BOOLEAN}

IsTmpFileInputs ==
    {[op |-> "is_tmp_file", RD_TRUST_TEMP_FILES |-> v, path |-> path,
      f_type |-> ty, statfs_ok |-> ok] :
        v \in {Unset, Some(NotUnicode), Some(<<>>), Some(<<"1">>)},
        path \in {P_tmp \o <<"/", "x">>, P_tmp \o <<"x">>, P_tmp, P_de,
                  P_d \o P_tmp \o <<"/">>},
        ty \in {"tmpfs", "ext4"}, ok \in BOOLEAN}

\* Buffers of distinct bytes, files of zeros, and what each pwrite64 does
PwriteAllInputs ==
    {[op |-> "pwrite_all_fallible", file |-> file, buf_initial |-> buf,
      offset |-> o, sched |-> sched] :
        file \in {<<>>, <<0, 0>>},
        buf \in {[i \in 1 .. n |-> i] : n \in 0 .. MaxBuf},
        o \in {0, 1},
        sched \in [1 .. MaxBuf -> -1 .. MaxBuf]}

PwriteAllFallible ==
    /\ input.op = "pwrite_all_fallible" /\ output = NoCall
    /\ output' = pwrite_all_fallible(input)
    /\ UNCHANGED <<fd_vars, emu_vars, owner_vars, input>>

\* Traces of task events in the order of their frame times
TaskEvents == [time : 1 .. MaxTime, event_type : TaskEventTypes]
Traces ==
    UNION {{tr \in [1 .. n -> TaskEvents] :
               \A i \in 1 .. n, j \in 1 .. n : i < j => tr[i].time <= tr[j].time} :
           n \in 0 .. MaxEvents}

ReadTaskTraceEventInputs ==
    {[op |-> "read_task_trace_event", events |-> tr, current_frame_time |-> now,
      task_event_type |-> ty] :
        tr \in Traces, now \in 1 .. MaxTime, ty \in TaskEventTypes}

ReadTaskTraceEvent ==
    /\ input.op = "read_task_trace_event" /\ output = NoCall
    /\ output' = read_task_trace_event(input)
    /\ UNCHANGED <<fd_vars, emu_vars, owner_vars, input>>

TmpDir ==
    /\ input.op = "tmp_dir" /\ output = NoCall
    /\ output' = tmp_dir(input)
    /\ UNCHANGED <<fd_vars, emu_vars, owner_vars, input>>

IsTmpFile ==
    /\ input.op = "is_tmp_file" /\ output = NoCall
    /\ output' = is_tmp_file(input)
    /\ UNCHANGED <<fd_vars, emu_vars, owner_vars, input>>

NextUtil ==
    \/ TmpDir
    \/ IsTmpFile
    \/ PwriteAllFallible
    \/ ReadTaskTraceEvent

InitSpecUtil ==
    /\ InitFd /\ ~is_recording /\ InitEmu
    /\ input \in TmpDirInputs \cup IsTmpFileInputs \cup PwriteAllInputs
                  \cup ReadTaskTraceEventInputs
    /\ output = NoCall

SpecUtil == InitSpecUtil /\ [][NextUtil]_vars

(***************************************************************************)
(* Properties of the FdTable                                               *)
(***************************************************************************)

\* The address spaces that have at least one live task
LiveAddressSpaces == {v \in AddressSpaces : vm_tasks(v) # {}}

\* Some FdTable of some task of address space v monitors fd
MonitoredInVm(v, fd) ==
    \E t \in vm_tasks(v) : fds[fd_table[t]][fd] # NoMonitor

\* C1: in a recording session whose tasks all have preload globals, for every
\* address space with a task and every fd f < SIZE - 1, byte f of the
\* disabled-fds bitmap is 1 iff some FdTable of some task of that address
\* space monitors f.
DisabledFdsConsistent ==
    (is_recording /\ \A t \in TaskIds : preload_globals[t]) =>
        \A v \in LiveAddressSpaces :
            \A f \in 0 .. (SYSCALLBUF_FDS_DISABLED_SIZE - 2) :
                (syscallbuf_fds_disabled[v][f] = 1) <=> MonitoredInVm(v, f)

\* C2: in a recording session whose tasks all have preload globals, the final
\* byte (index SIZE - 1) of every address space with a task is 1 iff some
\* FdTable of that address space has beyond_limit > 0 or monitors fd SIZE - 1.
FinalByteConsistent ==
    (is_recording /\ \A t \in TaskIds : preload_globals[t]) =>
        \A v \in LiveAddressSpaces :
            (syscallbuf_fds_disabled[v][SYSCALLBUF_FDS_DISABLED_SIZE - 1] = 1) <=>
                \/ MonitoredInVm(v, SYSCALLBUF_FDS_DISABLED_SIZE - 1)
                \/ \E t \in vm_tasks(v) : fd_count_beyond_limit[fd_table[t]] # 0

\* C3: beyond_limit of every table is the number of keys of fds that are
\* >= SYSCALLBUF_FDS_DISABLED_SIZE (so the counter never wrapped below 0).
BeyondLimitIsCount ==
    \A tb \in TableIds :
        fd_count_beyond_limit[tb] =
            Cardinality({fd \in FDs : fds[tb][fd] # NoMonitor
                                        /\ fd >= SYSCALLBUF_FDS_DISABLED_SIZE})

\* C3 witness: after a clone, one table holds every fd beyond the limit and
\* the other one lost all of them again while keeping a monitor below it.
BeyondLimitWitness ==
    /\ tasks["T2"] # {}
    /\ fd_count_beyond_limit["T1"] = FdsBeyondLimit
    /\ fd_count_beyond_limit["T2"] = 0
    /\ \E fd \in FDs : fds["T2"][fd] # NoMonitor
    /\ \E fd \in FDs : fds["T1"][fd] # fds["T1"][SYSCALLBUF_FDS_DISABLED_SIZE]

(***************************************************************************)
(* Properties of EmuFs                                                     *)
(***************************************************************************)

\* The recorded identity of EmuFile object id
FileIdOf(id) == [device |-> emu_files[id].device_, inode |-> emu_files[id].inode_]

\* Object id is the one some entry of the EmuFs refers to
Registered(id) == \E fid \in FileIds : files[fid] = id

Max(a, b) == IF a >= b THEN a ELSE b

\* C4: for every FileId the EmuFs holds an entry iff at least one EmuFile
\* with that (device, inode) still has a live strong handle.
EntryIffLiveFile ==
    \A fid \in FileIds :
        (files[fid] # None) <=> (\E id \in Objs : Live(id) /\ FileIdOf(id) = fid)

\* C5: in the step in which the last strong handle to an EmuFile is dropped,
\* the entry under its recorded identity goes away: find(device, inode)
\* returns empty right after.
FindEmptyAfterLastDrop ==
    [][\A id \in Objs :
          (emu_files[id].strong > 0 /\ emu_files'[id].strong = 0)
              => files'[FileIdOf(id)] = None]_vars

\* C5 witness: the last operation dropped the last handle of a file and no
\* entry is left under its identity.
FindEmptyWitness ==
    /\ ret.op = "drop"
    /\ emu_files[ret.arg].strong = 0
    /\ files[FileIdOf(ret.arg)] = None

\* C6: get_or_create on a mapping whose identity is registered returns the
\* registered EmuFile, creates no file, leaves the entries as they are and
\* leaves that file with size max(previous size, file_offset + length).
GetOrCreateRegistered ==
    [][\A km \in KernelMappings, ok \in BOOLEAN :
          (/\ files[KmId(km)] # None
           /\ fatal' \/ ret'.op = "get_or_create"
           /\ get_or_create(km, ok)) =>
              LET rc == files[KmId(km)] IN
                  /\ ~fatal'
                  /\ ret'.file = rc
                  /\ files' = files
                  /\ Len(emu_files') = Len(emu_files)
                  /\ emu_files'[rc].size_ =
                        Max(emu_files[rc].size_, km.file_offset_bytes + km.size)
                  /\ \A id \in Objs \ {rc} : emu_files'[id] = emu_files[id]]_vars

\* C6 witness: get_or_create just returned a file that was registered
\* already (its caller now holds a second handle) and that has the size of
\* the larger mapping, with a backing object of that size.
GetOrCreateRegisteredWitness ==
    /\ ret.op = "get_or_create"
    /\ emu_files[ret.file].strong = 2
    /\ files[FileIdOf(ret.file)] = ret.file
    /\ emu_files[ret.file].size_ = 1
    /\ Len(shmem[emu_files[ret.file].file]) = 1

\* C7: get_or_create on a mapping whose identity is not registered (and
\* whose backing can be created) creates a new EmuFile with that device and
\* inode and size file_offset + length, registers it under that FileId, and
\* leaves every other entry and every other file unchanged.
GetOrCreateUnregistered ==
    [][\A km \in KernelMappings :
          (/\ files[KmId(km)] = None
           /\ fatal' \/ ret'.op = "get_or_create"
           /\ get_or_create(km, TRUE)) =>
              LET new == Len(emu_files) + 1 IN
                  /\ ~fatal'
                  /\ ret'.file = new
                  /\ Len(emu_files') = new
                  /\ emu_files'[new].device_ = km.device
                  /\ emu_files'[new].inode_ = km.inode
                  /\ emu_files'[new].size_ = km.file_offset_bytes + km.size
                  /\ files'[KmId(km)] = new
                  /\ \A fid \in FileIds \ {KmId(km)} : files'[fid] = files[fid]
                  /\ Cardinality({fid \in FileIds : files'[fid] # None}) =
                        Cardinality({fid \in FileIds : files[fid] # None}) + 1
                  /\ \A id \in Objs : emu_files'[id] = emu_files[id]]_vars

\* C7 witness: get_or_create just created and registered a file next to an
\* entry that was there before.
GetOrCreateUnregisteredWitness ==
    /\ ret.op = "get_or_create"
    /\ ret.file = Len(emu_files)
    /\ emu_files[ret.file].strong = 1
    /\ files[FileIdOf(ret.file)] = ret.file
    /\ \E fid \in FileIds : files[fid] # None /\ files[fid] # ret.file

\* C8: inode recycling.  When the last operation dropped the last handle of
\* a file and get_or_create is called next with the same (device, inode), it
\* returns a new EmuFile (no object that existed before) whose size is that
\* of the new mapping, and the EmuFs holds one entry more: exactly one when
\* no other identity is registered.
InodeRecycling ==
    [][\A km \in KernelMappings :
          (/\ ret.op = "drop"
           /\ emu_files[ret.arg].strong = 0
           /\ FileIdOf(ret.arg) = KmId(km)
           /\ get_or_create(km, TRUE)) =>
              /\ ~fatal'
              /\ ret'.file \notin Objs
              /\ ret'.file # ret.arg
              /\ emu_files'[ret'.file].size_ = km.file_offset_bytes + km.size
              /\ files'[KmId(km)] = ret'.file
              /\ ((\A fid \in FileIds \ {KmId(km)} : files[fid] = None)
                     => Cardinality({fid \in FileIds : files'[fid] # None}) = 1)]_vars

\* C8 witness: the file just created reuses the identity of a dead file that
\* was larger, and it is the only entry.
InodeRecyclingWitness ==
    /\ ret.op = "get_or_create"
    /\ ret.file = Len(emu_files)
    /\ emu_files[ret.file].strong = 1
    /\ \E old \in Objs :
          /\ old # ret.file
          /\ emu_files[old].strong = 0
          /\ FileIdOf(old) = FileIdOf(ret.file)
          /\ emu_files[old].size_ > emu_files[ret.file].size_
    /\ \A o \in Objs \ {ret.file} : emu_files[o].strong = 0
    /\ size = 1

\* C9: once clone_file has returned the clone, the clone stays the file
\* registered under its FileId for as long as it is live, whatever the next
\* operation is (other than a further clone_file), the drop of the
\* original's last handle included.
CloneStaysRegistered ==
    [][(/\ ret.op = "clone_file"
        /\ files[FileIdOf(ret.file)] = ret.file
        /\ ret'.op # "clone_file"
        /\ ~fatal'
        /\ emu_files'[ret.file].strong > 0)
          => files'[FileIdOf(ret.file)] = ret.file]_vars

\* C10 as stated: after clone_file both the original and the clone are
\* registered, under different FileIds.
CloneBothRegistered ==
    (ret.op = "clone_file") =>
        /\ Registered(ret.arg)
        /\ Registered(ret.file)
        /\ FileIdOf(ret.arg) # FileIdOf(ret.file)

\* C10 amended: after clone_file the clone has the FileId of the original,
\* the original is not registered any more, and the one entry under that
\* FileId refers to the clone (it is absent only if the call itself dropped
\* the original's last handle).
CloneReplacesRegistration ==
    (ret.op = "clone_file") =>
        /\ FileIdOf(ret.file) = FileIdOf(ret.arg)
        /\ ~Registered(ret.arg)
        /\ files[FileIdOf(ret.arg)] \in {None, ret.file}
        /\ (Live(ret.arg) => files[FileIdOf(ret.arg)] = ret.file)

\* C10 witness: clone_file just returned, the original is still held and the
\* entry under the shared FileId refers to the clone.
CloneReplacesWitness ==
    /\ ret.op = "clone_file"
    /\ Live(ret.arg)
    /\ Live(ret.file)
    /\ files[FileIdOf(ret.arg)] = ret.file
    /\ ret.file # ret.arg

(***************************************************************************)
(* Properties of EmuFile: copies, backing objects and sizes                *)
(***************************************************************************)

\* The bytes of the backing object of EmuFile object id
BackingOf(id) == shmem[emu_files[id].file]

\* C11: every clone_file of an EmuFile f (whose backing can be created)
\* returns a new EmuFile g with the size, device, inode and orig_path of f
\* whose byte at every offset o < f.size is the byte f had at the call.
CloneFileCopies ==
    [][\A id \in Objs, moved \in BOOLEAN, short \in BOOLEAN :
          clone_file(id, moved, TRUE, short) =>
              /\ ~fatal'
              /\ ret'.op = "clone_file"
              /\ ret'.file \notin Objs
              /\ LET g == emu_files'[ret'.file]
                     f == emu_files[id]
                 IN /\ g.size_ = f.size_
                    /\ g.device_ = f.device_
                    /\ g.inode_ = f.inode_
                    /\ g.orig_path = f.orig_path
                    /\ \A o \in 0 .. (f.size_ - 1) :
                          shmem'[g.file][o + 1] = shmem[f.file][o + 1]]_vars

\* C12: a clone has its own backing object.  No two EmuFile objects share a
\* backing object, and a write to the backing of one EmuFile (the original
\* or the clone) leaves the bytes of every other live EmuFile as they were.
CloneOwnBacking ==
    [][/\ \A a, b \in 1 .. Len(emu_files') :
             a # b => emu_files'[a].file # emu_files'[b].file
       /\ \A id \in Objs, o \in WriteOffsets, b \in Bytes :
             write_backing(id, o, b) =>
                 \A other \in Objs \ {id} :
                     Live(other) =>
                         shmem'[emu_files'[other].file] = BackingOf(other)]_vars

\* C12 witness: the tracee just wrote to one of an original and its clone
\* (the only two files, both live, with one identity), both hold bytes, and
\* their first bytes differ.
CloneOwnBackingWitness ==
    /\ ret.op = "write"
    /\ Len(emu_files) = 2
    /\ Live(1) /\ Live(2)
    /\ FileId_from_emu_file(emu_files[1]) = FileId_from_emu_file(emu_files[2])
    /\ Len(BackingOf(1)) > 0 /\ Len(BackingOf(2)) > 0
    /\ BackingOf(1)[1] # BackingOf(2)[1]

\* C13: ensure_size(n) leaves the size at max(previous size, n), so after
\* any sequence of calls it is the maximum of the initial size and the
\* arguments; no step decreases a size; ensure_size(n) with n <= size changes
\* nothing (the backing is not resized); a second ensure_size(n) changes
\* nothing after the first; the backing has the length of the size.
EnsureSizeMonotone ==
    [][/\ \A id \in Objs : emu_files'[id].size_ >= emu_files[id].size_
       /\ \A id \in Objs, n \in Sizes :
             (ret'.op = "ensure_size" /\ ret'.arg = id /\ call_ensure_size(id, n)) =>
                 /\ emu_files'[id].size_ =
                       (IF emu_files[id].size_ >= n THEN emu_files[id].size_ ELSE n)
                 /\ Len(shmem'[emu_files'[id].file]) = emu_files'[id].size_
                 /\ (n <= emu_files[id].size_ =>
                        emu_files' = emu_files /\ shmem' = shmem)
                 /\ \A o \in 1 .. emu_files[id].size_ :
                       shmem'[emu_files'[id].file][o] = BackingOf(id)[o]
                 /\ ensure_size(emu_files'[id], shmem'[emu_files'[id].file], n) =
                       [f |-> emu_files'[id], m |-> shmem'[emu_files'[id].file]]]_vars

\* C13 witness: ensure_size just left a file at the largest size, above one
\* copy block, with a byte the tracee wrote before still in its backing.
EnsureSizeWitness ==
    /\ ret.op = "ensure_size"
    /\ emu_files[ret.arg].size_ = BUF_LEN + 1
    /\ Len(BackingOf(ret.arg)) = BUF_LEN + 1
    /\ BackingOf(ret.arg)[1] = 1
    /\ BackingOf(ret.arg)[BUF_LEN + 1] = 0

(***************************************************************************)
(* Properties of the FdTable operations                                    *)
(***************************************************************************)

\* The number of keys of table tb that are beyond the bitmap
BeyondLimit(f) ==
    Cardinality({fd \in FDs : f[fd] # NoMonitor /\ fd >= SYSCALLBUF_FDS_DISABLED_SIZE})

\* C14: when `from` is monitored, did_dup(from, to) leaves `to` bound to the
\* very monitor object `from` is bound to, whether `to` was monitored or
\* not, and leaves the binding of `from` and of every fd other than `to`.
DupSharesMonitor ==
    [][\A tb \in TableIds, from \in FDs, to \in FDs :
          (/\ last_op'.from = from /\ last_op'.fd = to
           /\ is_monitoring(fds[tb], from)
           /\ did_dup(tb, from, to)) =>
              /\ is_monitoring(fds'[tb], to)
              /\ get_monitor(fds'[tb], to) = get_monitor(fds[tb], from)
              /\ get_monitor(fds'[tb], from) = get_monitor(fds[tb], from)
              /\ \A fd \in FDs \ {to} : fds'[tb][fd] = fds[tb][fd]]_vars

\* C14 witness: did_dup just bound an fd beyond the bitmap to the monitor
\* object of another fd, while a third fd is bound to the other object.
DupSharesMonitorWitness ==
    /\ last_op.op = "did_dup"
    /\ last_op.fd >= SYSCALLBUF_FDS_DISABLED_SIZE
    /\ \E from \in FDs \ {last_op.fd} :
          /\ fds["T1"][from] # NoMonitor
          /\ fds["T1"][from] = fds["T1"][last_op.fd]
    /\ \E fd \in FDs :
          fds["T1"][fd] # NoMonitor /\ fds["T1"][fd] # fds["T1"][last_op.fd]

\* C15: when `from` is not monitored, did_dup(from, to) leaves `to` not
\* monitored and every other fd as it was; in every case the state of `to`
\* after did_dup is the state `from` had.
DupOfUnmonitoredCloses ==
    [][\A tb \in TableIds, from \in FDs, to \in FDs :
          (last_op'.from = from /\ last_op'.fd = to /\ did_dup(tb, from, to)) =>
              /\ fds'[tb][to] = fds[tb][from]
              /\ (~is_monitoring(fds[tb], from) =>
                     /\ ~is_monitoring(fds'[tb], to)
                     /\ \A fd \in FDs \ {to} : fds'[tb][fd] = fds[tb][fd]
                     /\ fd_count_beyond_limit'[tb] = BeyondLimit(fds'[tb]))]_vars

\* C15 witness: a did_dup from an unmonitored fd just took the monitor of
\* an fd beyond the bitmap away, the last one there, and left the others.
DupOfUnmonitoredWitness ==
    /\ last_op.op = "did_dup_unmonitored"
    /\ last_op.fd >= SYSCALLBUF_FDS_DISABLED_SIZE
    /\ fds["T1"][last_op.fd] = NoMonitor
    /\ fd_count_beyond_limit["T1"] = 0
    /\ Cardinality(keys(fds["T1"])) = SYSCALLBUF_FDS_DISABLED_SIZE

\* C16: after did_close(fd) fd is not monitored; did_close of an fd that is
\* not monitored leaves fds and beyond_limit as they were; every other fd
\* keeps its monitor, also the fds bound to the closed fd's monitor object.
CloseRemovesOne ==
    [][\A tb \in TableIds, fd \in FDs :
          (last_op'.fd = fd /\ did_close(tb, fd)) =>
              /\ ~is_monitoring(fds'[tb], fd)
              /\ \A x \in FDs \ {fd} : fds'[tb][x] = fds[tb][x]
              /\ (~is_monitoring(fds[tb], fd) =>
                     /\ fds' = fds
                     /\ fd_count_beyond_limit' = fd_count_beyond_limit)]_vars

\* C16 witness: did_close just removed the monitor of an fd, and the two
\* fds that share one monitor object (as after a did_dup) still have it.
CloseRemovesOneWitness ==
    /\ last_op.op = "did_close"
    /\ fds["T1"][last_op.fd] = NoMonitor
    /\ \E a \in FDs, b \in FDs :
          a # b /\ fds["T1"][a] # NoMonitor /\ fds["T1"][a] = fds["T1"][b]

\* C17: add_monitor(task, fd, monitor) on an fd that is not monitored leaves
\* fd monitored with get_monitor(fd) the given monitor and the binding of
\* every other fd as it was.
AddMonitorBinds ==
    [][\A tb \in TableIds, t \in TaskIds, fd \in FDs, m \in Monitors :
          (last_op'.fd = fd /\ add_monitor(tb, t, fd, m)) =>
              /\ ~is_monitoring(fds[tb], fd)
              /\ is_monitoring(fds'[tb], fd)
              /\ get_monitor(fds'[tb], fd) = m
              /\ \A x \in FDs \ {fd} : fds'[tb][x] = fds[tb][x]]_vars

\* C17 witness: add_monitor just bound an fd beyond the bitmap, next to an
\* fd that is bound to the other monitor object.
AddMonitorBindsWitness ==
    /\ last_op.op = "add_monitor"
    /\ last_op.fd > SYSCALLBUF_FDS_DISABLED_SIZE
    /\ fds["T1"][last_op.fd] = "m2"
    /\ \E x \in FDs : fds["T1"][x] = "m1"

\* The elements of a sequence
Elems(list) == {list[i] : i \in 1 .. Len(list)}

\* C18: for every set of open fds and every iteration order of the keys,
\* the vector fds_to_close_after_exec(task) builds holds the monitored fds
\* that are not open any more, each once and none that is open; the call
\* leaves fds as it was without the returned fds (the rest bound as
\* before), and it does so for every task of the table.
ExecClosesExactly ==
    /\ [](\A tb \in TableIds, open_fds \in SUBSET FDs :
            \A key_order \in Orders(keys(fds[tb])) :
                LET list == fds_no_longer_open(key_order, open_fds) IN
                    /\ Elems(list) = keys(fds[tb]) \ open_fds
                    /\ Cardinality(Elems(list)) = Len(list))
    /\ [][\A tb \in TableIds, list \in ExecClosed :
             \A t \in tasks[tb] :
                 (last_op'.list = list /\ fds_to_close_after_exec(tb, t, list)) =>
                     /\ fds'[tb] = [fd \in FDs |->
                                      IF fd \in Elems(list)
                                      THEN NoMonitor ELSE fds[tb][fd]]
                     /\ fd_count_beyond_limit'[tb] = BeyondLimit(fds'[tb])
                     /\ \A t2 \in tasks[tb] :
                           fds_to_close_after_exec(tb, t2, list)]_vars

\* C18 witness: fds_to_close_after_exec just returned two fds, one of them
\* beyond the bitmap; they are gone and two monitored fds are left.
ExecClosesWitness ==
    /\ last_op.op = "fds_to_close_after_exec"
    /\ Len(last_op.list) = 2
    /\ \E i \in 1 .. 2 : last_op.list[i] >= SYSCALLBUF_FDS_DISABLED_SIZE
    /\ \A i \in 1 .. 2 : fds["T1"][last_op.list[i]] = NoMonitor
    /\ Cardinality(keys(fds["T1"])) = 2

\* C19: clone_into_task(task) makes a new FdTable whose fds bind every fd
\* to the monitor object the source binds it to, whose beyond_limit is the
\* source's and whose task set is {task}, and leaves the source as it was;
\* afterwards add_monitor, did_dup and did_close on one of the two tables
\* leave fds and beyond_limit of the other as they were.
CloneIntoTaskIndependent ==
    [][/\ \A tb \in TableIds, tb2 \in TableIds, t \in TaskIds :
             (last_op'.tb = tb2 /\ clone_into_task(tb, tb2, t)) =>
                 /\ fds'[tb2] = fds[tb]
                 /\ fd_count_beyond_limit'[tb2] = fd_count_beyond_limit[tb]
                 /\ tasks'[tb2] = {t}
                 /\ fds'[tb] = fds[tb]
                 /\ fd_count_beyond_limit'[tb] = fd_count_beyond_limit[tb]
                 /\ tasks'[tb] = tasks[tb]
       /\ \A tb \in TableIds : \A other \in TableIds \ {tb} :
             (/\ last_op'.tb = tb
              /\ \/ \E t \in TaskIds, m \in Monitors :
                       add_monitor(tb, t, last_op'.fd, m)
                 \/ did_dup(tb, last_op'.from, last_op'.fd)
                 \/ did_close(tb, last_op'.fd)) =>
                 /\ fds'[other] = fds[other]
                 /\ fd_count_beyond_limit'[other] = fd_count_beyond_limit[other]
                 /\ tasks'[other] = tasks[other]]_vars

\* C19 witness: after the clone the two tables went apart: a call on one of
\* them was the last, the source has a monitor on an fd beyond the bitmap
\* that the clone lost, and the clone has one on an fd the source never had.
CloneIntoTaskWitness ==
    /\ tasks["T2"] = {"t2"}
    /\ last_op.op \in {"add_monitor", "did_dup", "did_close"}
    /\ fds["T1"][SYSCALLBUF_FDS_DISABLED_SIZE] # NoMonitor
    /\ fds["T2"][SYSCALLBUF_FDS_DISABLED_SIZE] = NoMonitor
    /\ fd_count_beyond_limit["T1"] = 1
    /\ fd_count_beyond_limit["T2"] = 0
    /\ fds["T1"][0] = NoMonitor
    /\ fds["T2"][0] # NoMonitor

\* C20: in a recording session init_syscallbuf_fds_disabled(task), for a
\* task with preload globals, writes the whole bitmap of the task's address
\* space: byte i < SIZE - 1 is 1 iff some FdTable of a task of that address
\* space monitors fd i, byte SIZE - 1 is 1 iff some such FdTable monitors an
\* fd >= SIZE - 1 (also when the tasks of the address space use different
\* FdTables), and the same bytes are recorded; for a task without preload
\* globals nothing is written.
InitWritesWholeBitmap ==
    [][\A tb \in TableIds, t \in TaskIds :
          (/\ is_recording
           /\ fd_table[t] = tb
           /\ fds' = fds
           /\ init_syscallbuf_fds_disabled(tb, t)) =>
              IF preload_globals[t]
              THEN /\ \A i \in 0 .. (SYSCALLBUF_FDS_DISABLED_SIZE - 2) :
                        syscallbuf_fds_disabled'[vm(t)][i] =
                            IF MonitoredInVm(vm(t), i) THEN 1 ELSE 0
                   /\ syscallbuf_fds_disabled'[vm(t)]
                          [SYSCALLBUF_FDS_DISABLED_SIZE - 1] =
                            IF \E fd \in FDs :
                                  /\ fd >= SYSCALLBUF_FDS_DISABLED_SIZE - 1
                                  /\ MonitoredInVm(vm(t), fd)
                            THEN 1 ELSE 0
                   /\ recorded'[vm(t)] = syscallbuf_fds_disabled'[vm(t)]
                   /\ \A v \in AddressSpaces \ {vm(t)} :
                        /\ syscallbuf_fds_disabled'[v] = syscallbuf_fds_disabled[v]
                        /\ recorded'[v] = recorded[v]
              ELSE UNCHANGED <<syscallbuf_fds_disabled, recorded>>]_vars

\* C20 witness: the bitmap of address space A was written from two different
\* FdTables: fd 0 is monitored only in t3's table, an fd beyond the bitmap
\* only in t1's, and both bytes are 1.
InitWritesWholeBitmapWitness ==
    /\ fd_table["t3"] \in TableIds
    /\ fd_table["t3"] # fd_table["t1"]
    /\ fds[fd_table["t3"]][0] # NoMonitor
    /\ fds[fd_table["t1"]][0] = NoMonitor
    /\ \E fd \in FDs : /\ fd >= SYSCALLBUF_FDS_DISABLED_SIZE
                        /\ fds[fd_table["t1"]][fd] # NoMonitor
                        /\ fds[fd_table["t3"]][fd] = NoMonitor
    /\ syscallbuf_fds_disabled["A"][0] = 1
    /\ syscallbuf_fds_disabled["A"][SYSCALLBUF_FDS_DISABLED_SIZE - 1] = 1
    /\ recorded["A"] = syscallbuf_fds_disabled["A"]

\* C21: every write of bitmap bytes into tracee memory, by the refresh after
\* a mutation and by init_syscallbuf_fds_disabled, is followed within the
\* same operation by the record of the same address and bytes: the calls of
\* record_local of an operation are its calls of write_bytes, and the bytes
\* recorded are the bytes in memory.
WriteThenRecord ==
    /\ recorded = syscallbuf_fds_disabled
    /\ \A tb \in LiveTables : \A ord \in Orders(tasks[tb]) :
          /\ \A fd \in FDs :
                LET W == update_syscallbuf_fds_disabled(World, ord, fd)
                IN W.records = W.writes /\ W.rec = W.mem
          /\ \A t \in tasks[tb] :
                LET W == init_syscallbuf_fds_disabled_world(World, t)
                IN W.records = W.writes /\ W.rec = W.mem

\* C21 witness: the bitmap of address space B was written and recorded (fd 0
\* is monitored in the table of t2), and another init for t2 writes once.
WriteThenRecordWitness ==
    /\ syscallbuf_fds_disabled["B"][0] = 1
    /\ recorded["B"][0] = 1
    /\ Len(init_syscallbuf_fds_disabled_world(World, "t2").writes) = 1

\* The world W as a recording session would have it
Recording(W) == [W EXCEPT !.is_recording = TRUE]

\* Operation results a and b have the same fds and beyond_limit, and a has
\* written and recorded nothing since W.
SameTablesNoWrite(W, a, b) ==
    /\ a.fds = b.fds /\ a.cnt = b.cnt
    /\ a.mem = W.mem /\ a.rec = W.rec
    /\ a.writes = <<>> /\ a.records = <<>>

\* C22: in a replay session add_monitor, did_dup, did_close,
\* close_after_exec and init_syscallbuf_fds_disabled write nothing to tracee
\* memory and record nothing, and leave fds and beyond_limit as the same
\* call leaves them in a recording session.
ReplayNeverWrites ==
    ~is_recording =>
        /\ syscallbuf_fds_disabled = ZeroBitmaps
        /\ recorded = ZeroBitmaps
        /\ \A tb \in LiveTables : \A ord \in Orders(tasks[tb]) :
              /\ \A fd \in FDs, m \in Monitors :
                    ~is_monitoring(fds[tb], fd) =>
                        SameTablesNoWrite(World,
                            add_monitor_world(World, tb, ord, fd, m),
                            add_monitor_world(Recording(World), tb, ord, fd, m))
              /\ \A from \in FDs, to \in FDs :
                    SameTablesNoWrite(World,
                        did_dup_world(World, tb, ord, from, to),
                        did_dup_world(Recording(World), tb, ord, from, to))
              /\ \A fd \in FDs :
                    SameTablesNoWrite(World,
                        did_close_world(World, tb, ord, fd),
                        did_close_world(Recording(World), tb, ord, fd))
              /\ \A list \in CloseLists :
                    SameTablesNoWrite(World,
                        close_each(World, tb, ord, list, 1),
                        close_each(Recording(World), tb, ord, list, 1))
              /\ \A t \in tasks[tb] :
                    SameTablesNoWrite(World,
                        init_syscallbuf_fds_disabled_world(World, t),
                        init_syscallbuf_fds_disabled_world(Recording(World), t))

\* C22 witness: a replay session whose two tables were mutated (an fd beyond
\* the bitmap in each, bound to different monitor objects, counted) while the
\* bitmaps are as they were at the start.
ReplayNeverWritesWitness ==
    /\ ~is_recording
    /\ tasks["T2"] # {}
    /\ fds["T1"][SYSCALLBUF_FDS_DISABLED_SIZE] = "m1"
    /\ fds["T2"][SYSCALLBUF_FDS_DISABLED_SIZE] = "m2"
    /\ fds["T2"][0] = "m2"
    /\ fd_count_beyond_limit["T1"] = 1
    /\ fd_count_beyond_limit["T2"] = 1
    /\ syscallbuf_fds_disabled = ZeroBitmaps

\* The number of writes of the log that went to address space v
WritesTo(log, v) == Cardinality({i \in 1 .. Len(log) : log[i][1] = v})

\* C23: during one mutation of an FdTable in a recording session (the tasks
\* of the table have their preload globals) the bitmap byte is written
\* exactly once for each address space that has a task using the table, and
\* not for any other.
WrittenOncePerAddressSpace ==
    is_recording =>
        \A tb \in LiveTables : \A ord \in Orders(tasks[tb]) : \A fd \in FDs :
            (\A t \in tasks[tb] : preload_globals[t]) =>
                LET W == update_syscallbuf_fds_disabled(World, ord, fd) IN
                    \A v \in AddressSpaces :
                        WritesTo(W.writes, v) =
                            IF \E t \in tasks[tb] : vm(t) = v THEN 1 ELSE 0

(***************************************************************************)
(* Properties of the EmuFs registry and of the creation of EmuFiles        *)
(***************************************************************************)

\* The EmuFiles with identity fid that have an entry in the EmuFs
RegisteredWith(fid) == {id \in Objs : FileIdOf(id) = fid /\ Registered(id)}

\* C24: for every FileId fid at most one EmuFile with identity fid is
\* registered, at any time, also after get_or_create registers a new file
\* for a recycled identity and after clone_file registers the copy; an
\* entry is under the identity of its file.
AtMostOneRegistered ==
    /\ \A fid \in FileIds : Cardinality(RegisteredWith(fid)) <= 1
    /\ \A fid \in FileIds : files[fid] # None => FileIdOf(files[fid]) = fid

\* C24 witness: clone_file registered the copy while the original, of the
\* same identity, is still held by its caller; the identity has one entry.
AtMostOneRegisteredWitness ==
    /\ ret.op = "clone_file"
    /\ emu_files[ret.arg].strong > 0
    /\ emu_files[ret.file].strong > 0
    /\ FileIdOf(ret.arg) = FileIdOf(ret.file)
    /\ RegisteredWith(FileIdOf(ret.file)) = {ret.file}
    /\ size = 1

\* The sizes and the contents of the backing objects are as they were.
NothingResized ==
    /\ Len(emu_files') = Len(emu_files)
    /\ \A id \in Objs : emu_files'[id].size_ = emu_files[id].size_
    /\ shmem' = shmem

UpdateChecksIdentity ==
    [][\A id \in Objs, rid \in RecordedIds, n \in Sizes, dbg \in BOOLEAN :
          (/\ fatal' \/ (ret'.op = "update" /\ ret'.arg = id)
           /\ call_update(id, rid[1], rid[2], n, dbg)) =>
              IF FileIdOf(id) # FileId_new(rid[1], rid[2])
              THEN /\ fatal'
                   /\ emu_files' = emu_files
                   /\ shmem' = shmem
              ELSE /\ ~fatal'
                   /\ LET u == ensure_size(emu_files[id], BackingOf(id), n) IN
                         /\ emu_files'[id] = u.f
                         /\ shmem'[emu_files[id].file] = u.m]_vars

\* C27: when memfd_create fails (the temporary directory of the model's
\* environment is writable) the creation of an EmuFile falls back to an
\* unlinked temporary file and returns a file with a backing of the size
\* asked for, registered as usual; when the creation is fatal no entry is
\* registered.
CreateFallsBack ==
    [][\A km \in KernelMappings :
          (/\ files[KmId(km)] = None
           /\ fatal' \/ ret'.op = "get_or_create"
           /\ get_or_create(km, FALSE)) =>
              /\ ~fatal'
              /\ Len(emu_files') = Len(emu_files) + 1
              /\ emu_files'[ret'.file].size_ = min_file_size(km)
              /\ Len(shmem'[emu_files'[ret'.file].file]) = min_file_size(km)
              /\ files'[KmId(km)] = ret'.file]_vars

(***************************************************************************)
(* Properties of the utility functions                                     *)
(***************************************************************************)

\* The directory the environment selects: $RD_TMPDIR, else $TMPDIR, else /tmp
SelectedTmpDir(in) ==
    IF in.RD_TMPDIR # Unset THEN value(in.RD_TMPDIR)
    ELSE IF in.TMPDIR # Unset THEN value(in.TMPDIR)
    ELSE P_tmp

\* C28: tmp_dir() returns $RD_TMPDIR when it is set, otherwise $TMPDIR when
\* it is set, otherwise "/tmp" when /tmp is writable: what it returns is the
\* selected directory, it is fatal only when that directory cannot be made
\* to exist or is not writable (so never when the directory is there and
\* writable), and it does not return a /tmp that is not writable.
TmpDirSelects ==
    output.op = "tmp_dir" =>
        LET sel == SelectedTmpDir(input) IN
            /\ ~output.fatal => output.dir = sel
            /\ access_W_OK(input.fs, strip_trailing_slashes(sel)) => ~output.fatal
            /\ (input.RD_TMPDIR = Unset /\ input.TMPDIR = Unset
                  /\ ~access_W_OK(input.fs, P_tmp)) => output.fatal

\* C29: is_tmp_file with RD_TRUST_TEMP_FILES set and non-empty answers
\* without calling statfs; with the variable unset or empty it calls statfs
\* and the path is a temp file iff its file system is tmpfs or the path
\* starts with "/tmp/".
IsTmpFileTrusts ==
    output.op = "is_tmp_file" =>
        IF input.RD_TRUST_TEMP_FILES \in {Some(NotUnicode), Some(<<"1">>)}
        THEN ~output.statfs_called /\ ~output.fatal
        ELSE /\ output.statfs_called
             /\ ~output.fatal =>
                   (output.result <=>
                       (input.f_type = "tmpfs"
                        \/ starts_with(input.path, <<"/", "t", "m", "p", "/">>)))

(***************************************************************************)
(* Termination of EmuFile::clone_file                                      *)
(***************************************************************************)

\* C30: EmuFile::clone_file of a source file of non-zero size returns the
\* clone, with full and with short reads and writes (each transfers at least
\* one byte): it does not end in fatal!, the inner write loop ends once the
\* bytes of the current read are written, and the file offset has then
\* advanced by exactly the number of bytes read.
CloneFileTerminates ==
    [][\A id \in Objs, moved \in BOOLEAN, short \in BOOLEAN :
          (/\ emu_files[id].size_ > 0
           /\ clone_file(id, moved, TRUE, short)) =>
              /\ ~fatal'
              /\ ret'.op = "clone_file"
              /\ LET self == emu_files[id]
                     got == pread64(shmem[self.file], Min(self.size_, BUF_LEN), 0, short)
                     data == got \o [i \in 1 .. (DataBytes - Len(got)) |-> 0]
                     w == write_loop(<<>>, data, 0, Len(got), 0, short)
                 IN /\ Len(got) >= 1
                    /\ ~w.fatal
                    /\ w.offset = Len(got)]_vars

\* C31: in EmuFile::clone_file a positional read that returns 0 before
\* size_ bytes are copied is fatal: every clone_file of a file whose backing
\* object ends before size_ bytes ends in fatal!, and no clone is returned
\* or registered.
ReadFailureIsFatal ==
    [][\A id \in Objs, moved \in BOOLEAN, short \in BOOLEAN :
          (/\ fatal' \/ ret'.op = "clone_file"
           /\ Len(shmem[emu_files[id].file]) < emu_files[id].size_
           /\ clone_file(id, moved, TRUE, short)) =>
              /\ fatal'
              /\ emu_files' = emu_files
              /\ files' = files]_vars

\* C31 witness: the only EmuFile has lost its backing bytes and the
\* clone_file that followed, whose first read returned 0, was fatal.
ReadFailureWitness ==
    /\ fatal
    /\ ret.op = "truncate"
    /\ Len(emu_files) = 1
    /\ emu_files[1].size_ >= 1
    /\ Len(shmem[emu_files[1].file]) = 0

(***************************************************************************)
(* Lifetimes of the EmuFiles and of the EmuFs                              *)
(***************************************************************************)

\* C32: when the last strong handle to an EmuFile is dropped, the entry for
\* its (device, inode) is removed from the EmuFs first and the backing fd is
\* released afterwards: the destructor passes through no state in which an
\* entry of the registry is for an EmuFile whose backing fd is closed, and
\* it ends in the state the drop leaves.
DropRemovesThenCloses ==
    [][\A id \in Objs :
          (/\ ret'.op = "drop" /\ ret'.arg = id
           /\ emu_files[id].strong = 1
           /\ drop_handle(id)) =>
              LET steps == drop_steps(emu_files, files, id) IN
                 /\ steps[1].files[FileIdOf(id)] = None
                 /\ id \in steps[1].open
                 /\ \A i \in 1 .. Len(steps) : \A fid \in FileIds :
                       steps[i].files[fid] # None => steps[i].files[fid] \in steps[i].open
                 /\ steps[Len(steps)].files = files'
                 /\ steps[Len(steps)].open = {i \in Objs : emu_files'[i].strong > 0}]_vars

\* C32 witness: the last handle of a registered file was dropped while a
\* file of the other identity stays registered.
DropRemovesThenClosesWitness ==
    /\ ret.op = "drop"
    /\ emu_files[ret.arg].strong = 0
    /\ files[FileIdOf(ret.arg)] = None
    /\ \E fid \in FileIds : files[fid] # None /\ files[fid] # ret.arg

\* C33: after any sequence of get_or_create, clone_file and handle drops
\* every entry of the EmuFs refers to a live EmuFile, so the upgrade of the
\* weak handle in at, find, get_or_create and log never fails.
EntriesAreLive ==
    \A fid \in FileIds :
        files[fid] # None =>
            /\ Live(files[fid])
            /\ upgrades(fid)

\* C33 witness: a handle of the registered file was dropped and the file
\* stays registered and live, while an earlier EmuFile of the same identity
\* is dead.
EntriesAreLiveWitness ==
    /\ ret.op = "drop"
    /\ Live(ret.arg)
    /\ files[FileIdOf(ret.arg)] = ret.arg
    /\ \E id \in Objs : emu_files[id].strong = 0 /\ FileIdOf(id) = FileIdOf(ret.arg)

\* C34: the EmuFs outlives every EmuFile it created: no EmuFile is alive
\* once the EmuFs is destroyed, and in no order of the drops of the handles
\* to EmuFiles and to the EmuFs does the destructor of an EmuFile call
\* destroyed_file on an EmuFs that is destroyed.
OwnerOutlives ==
    /\ [](emu_fs_strong = 0 => \A id \in Objs : ~Live(id))
    /\ [][\A id \in Objs :
            (/\ ret'.op = "drop" /\ ret'.arg = id
             /\ emu_files[id].strong = 1
             /\ drop_handle(id)) => emu_fs_strong > 0]_vars

(***************************************************************************)
(* pwrite_all_fallible                                                     *)
(***************************************************************************)

\* C35: when pwrite_all_fallible(fd, buf, offset) returns Ok(n), the bytes
\* buf[0..n] are stored at the file positions offset .. offset+n in order,
\* also with short writes; it returns Ok(buf.len()) when every pwrite makes
\* progress, and Err only when the first pwrite fails.
PwriteAllStoresInOrder ==
    output.op = "pwrite_all_fallible" =>
        /\ output.ok =>
              \A i \in 1 .. output.n :
                  /\ input.offset + i <= Len(output.file)
                  /\ output.file[input.offset + i] = input.buf_initial[i]
        /\ (\A k \in 1 .. MaxBuf : input.sched[k] > 0) =>
              (output.ok /\ output.n = Len(input.buf_initial))
        /\ ~output.ok => input.sched[1] < 0

(***************************************************************************)
(* Recording and replay of the fds an exec closes                          *)
(***************************************************************************)

\* C36: starting from two FdTables with equal fd sets, fds_to_close_after_exec
\* on the recording side and close_after_exec with the returned list on the
\* replay side leave both tables with equal fd sets and equal beyond_limit,
\* for every set of fds the exec closed and every order of the list.
ExecReplayEquivalent ==
    last_op.op = "close_after_exec" =>
        /\ keys(fds["T1"]) = keys(fds["T2"])
        /\ fd_count_beyond_limit["T1"] = fd_count_beyond_limit["T2"]
        /\ \A i \in 1 .. Len(last_op.list) : fds["T2"][last_op.list[i]] = NoMonitor

\* C36 witness: the exec closed an fd below and an fd beyond the limit, the
\* replay has applied the list, and an fd of each kind stays monitored.
ExecReplayWitness ==
    /\ last_op.op = "close_after_exec"
    /\ Len(last_op.list) = 2
    /\ last_op.list[1] >= SYSCALLBUF_FDS_DISABLED_SIZE
    /\ last_op.list[2] < SYSCALLBUF_FDS_DISABLED_SIZE
    /\ fd_count_beyond_limit["T2"] = 1
    /\ \E fd \in keys(fds["T2"]) : fd < SYSCALLBUF_FDS_DISABLED_SIZE

(***************************************************************************)
(* read_task_trace_event                                                   *)
(***************************************************************************)

\* C37: read_task_trace_event skips every task event whose time is earlier
\* than the task's current frame time, whatever its type, and stops at the
\* first event whose time is >= the current frame time: when the trace has
\* a task event at the current frame time the final assertion holds and the
\* first such event is returned, and a trace that ends before an event at
\* or after the current frame time is reported as corrupt.
ReadSkipsEarlierEvents ==
    output.op = "read_task_trace_event" =>
        LET later == {k \in 1 .. Len(input.events) :
                         input.events[k].time >= input.current_frame_time}
        IN /\ (\E k \in later : input.events[k].time = input.current_frame_time) =>
                 /\ ~output.fatal
                 /\ output.index \in later
                 /\ \A k \in later : output.index <= k
           /\ later = {} => (output.fatal /\ output.corrupt)

====
